---------------------------- MODULE Spec2Model ----------------------------
(***************************************************************************)
(* Model of the accounting-report parser and PDF layout engine of          *)
(* bh-dashboard (src/lib/report/pdf).                                      *)
(*                                                                         *)
(* Text is modelled as a sequence of words: the JavaScript string          *)
(* "E17 Payroll Expenses" is <<"E17", "Payroll", "Expenses">> and the      *)
(* empty string is <<>>.  A ColData array is a sequence of such strings    *)
(* (column 0 the label, the others the values); a column without a value   *)
(* is the empty string, which every reader of the code treats alike        *)
(* (col?.value || ...).                                                    *)
(***************************************************************************)
EXTENDS Integers, Sequences, FiniteSets, TLC

VARIABLES
    fn,             \* pure-function harness: the function last applied
    fnArg,          \* its argument (a row, or a label with its enclosing header)
    fnOut,          \* what it returned
    report,         \* the ReportData handed to the parser (or to the transformer)
    pc,             \* position of the parser / transformer
    rowIdx,         \* index of the top-level row the forEach is at
    expIdx,         \* index of the child of the Expenses row the inner forEach is at
    sectionType,    \* identifySectionType of the current top-level row
    stack,          \* call stack of transformItemsBase: <<[rows, idx, context]>>
    keywordsFound,  \* heap of keywordsFound objects; a context holds an index into it
    items,          \* items pushed so far by the running transform, in push order
    result,         \* the parser's local variables income, costOfSales, ...
    origin,         \* history: index of the top-level row that last assigned each local
    log,            \* history: one entry per row the running transform dispatched
    y,              \* PositionTracker._y
    margin,         \* PositionTracker.margin
    pageCount,      \* number of pages of the jsPDF document
    lastCall,       \* the last PositionTracker call: [op, req, yBefore, pagesBefore, ret]
    parsed,         \* the parsed report handed to the strategy's render
    targets,        \* resolvedTargets of generatePDFFromReportData
    incomeTotals,   \* the renderer's incomeTotal / incomeTotalForMonths / incomeTotalForTotal
    rpc,            \* position of render: the draw call that comes next
    drawn,          \* what render has drawn so far: value cells and target annotations
    sheet,          \* the strategy and the shape of the parsed report it lays out
    lpc,            \* position of the strategy's render on the page: the next draw call
    events          \* history: the calls made on the renderer, in order

vars == <<fn, fnArg, fnOut, report, pc, rowIdx, expIdx, sectionType, stack,
          keywordsFound, items, result, origin, log, y, margin, pageCount, lastCall,
          parsed, targets, incomeTotals, rpc, drawn, sheet, lpc, events>>

fnVars == <<fn, fnArg, fnOut>>
parseVars == <<report, pc, rowIdx, expIdx, sectionType, stack, keywordsFound,
               items, result, origin, log>>
layoutVars == <<y, margin, pageCount, lastCall, sheet, lpc, events>>
renderVars == <<parsed, targets, incomeTotals, rpc, drawn>>

---------------------------------------------------------------------------
(* Bounds of the model *)

MaxMonths == 2      \* numMonths ranges over 1..MaxMonths
MaxTop == 3         \* rows of the list handed to a direct transformItems call
MaxRows == 2        \* top-level rows of a parsed report
MaxStep == 12       \* moveDown amounts and required heights range over 0..MaxStep
MaxPages == 3       \* pages of the document before the model stops
PageHeight == 60    \* doc.internal.pageSize.getHeight()
MaxLines == 3       \* lines a wrapped item label takes
MaxItems == 2       \* items of a section laid out on the page

---------------------------------------------------------------------------
(* Strings *)

EmptyStr == <<>>

\* String.prototype.toUpperCase, word by word
UpperWord(w) ==
    CASE w = "Income" -> "INCOME"
      [] w = "income" -> "INCOME"
      [] w = "Cost" -> "COST"
      [] w = "of" -> "OF"
      [] w = "Sales" -> "SALES"
      [] w = "Goods" -> "GOODS"
      [] w = "Sold" -> "SOLD"
      [] w = "Expenses" -> "EXPENSES"
      [] w = "Expense" -> "EXPENSE"
      [] w = "Other" -> "OTHER"
      [] w = "Profit" -> "PROFIT"
      [] w = "Net" -> "NET"
      [] w = "Gross" -> "GROSS"
      [] w = "Total" -> "TOTAL"
      [] w = "e17" -> "E17"
      [] w = "Payroll" -> "PAYROLL"
      [] w = "Wages" -> "WAGES"
      [] w = "Wage" -> "WAGE"
      [] w = "Clover" -> "CLOVER"
      [] w = "Courier" -> "COURIER"
      [] w = "Online" -> "ONLINE"
      [] w = "Subscription" -> "SUBSCRIPTION"
      [] w = "Travel" -> "TRAVEL"
      [] w = "Conference" -> "CONFERENCE"
      [] w = "Rent" -> "RENT"
      [] w = "Fixed" -> "FIXED"
      [] w = "Catering" -> "CATERING"
      [] w = "c" -> "C"
      [] w = "expense" -> "EXPENSE"
      [] w = "online" -> "ONLINE"
      [] w = "subscription" -> "SUBSCRIPTION"
      [] OTHER -> w

toUpperCase(s) == [i \in 1..Len(s) |-> UpperWord(s[i])]

\* the upper-case word w contains the upper-case word p as a substring
WordIncludes(w, p) ==
    \/ w = p
    \/ <<w, p>> \in { <<"EXPENSES", "EXPENSE">>, <<"WAGES", "WAGE">>,
                      <<"CATERING", "C">>, <<"CATERING", "E">>,
                      <<"CLOVER", "L">>, <<"CLOVER", "C">>, <<"CLOVER", "E">>,
                      <<"COURIER", "C">>, <<"COURIER", "E">>,
                      <<"PAYROLL", "L">>, <<"SALES", "L">>, <<"SALES", "E">>,
                      <<"TRAVEL", "L">>, <<"TRAVEL", "E">>, <<"TOTAL", "L">>,
                      <<"ONLINE", "L">>, <<"ONLINE", "E">>, <<"SOLD", "L">>,
                      <<"EXPENSES", "E">>, <<"EXPENSE", "E">>, <<"INCOME", "C">>,
                      <<"INCOME", "E">>, <<"CONFERENCE", "C">>, <<"CONFERENCE", "E">>,
                      <<"E17", "E">>, <<"WAGES", "E">>, <<"WAGE", "E">>,
                      <<"RENT", "E">>, <<"FIXED", "E">>, <<"COST", "C">>,
                      <<"SUBSCRIPTION", "C">>, <<"OTHER", "E">>, <<"NET", "E">> }

\* the upper-case word w starts with / ends with the upper-case word p
WordStartsWith(w, p) ==
    \/ w = p
    \/ <<w, p>> \in { <<"EXPENSES", "EXPENSE">>, <<"WAGES", "WAGE">>,
                      <<"CATERING", "C">>, <<"CLOVER", "C">>, <<"COURIER", "C">>,
                      <<"CONFERENCE", "C">>, <<"COST", "C">>,
                      <<"EXPENSES", "E">>, <<"EXPENSE", "E">>, <<"E17", "E">> }

WordEndsWith(w, p) ==
    \/ w = p
    \/ <<w, p>> \in { <<"EXPENSE", "E">>, <<"INCOME", "E">>, <<"CONFERENCE", "E">>,
                      <<"ONLINE", "E">>, <<"WAGE", "E">> }

\* words i..i+Len(p)-1 of s spell a text that contains the phrase p: the first
\* word of p ends a word of s, the last begins one, those between are equal
PhraseAt(s, p, i) ==
    /\ i >= 1
    /\ i + Len(p) - 1 <= Len(s)
    /\ IF Len(p) = 1
          THEN WordIncludes(s[i], p[1])
          ELSE /\ WordEndsWith(s[i], p[1])
               /\ WordStartsWith(s[i + Len(p) - 1], p[Len(p)])
               /\ \A k \in 2..(Len(p) - 1) : s[i + k - 1] = p[k]

\* String.prototype.includes, for upper-case s and a non-empty phrase p
includes(s, p) == \E i \in 1..Len(s) : PhraseAt(s, p, i)

\* String.prototype.startsWith, for a one-word p
startsWith(s, p) == Len(s) >= 1 /\ WordStartsWith(s[1], p)

---------------------------------------------------------------------------
(* Rows (QuickBooksRow) *)

\* A row: type and group are "" when the field is absent, hasX says whether
\* ColData / Header.ColData / Summary.ColData / Rows.Row is present.
MkRow(type, group, hasColData, colData, hasHeader, header, hasSummary, summary, hasRows, rows) ==
    [type |-> type, group |-> group,
     hasColData |-> hasColData, ColData |-> colData,
     hasHeader |-> hasHeader, Header |-> header,
     hasSummary |-> hasSummary, Summary |-> summary,
     hasRows |-> hasRows, Rows |-> rows]

\* a leaf row carrying ColData only
DataRow(type, colData) ==
    MkRow(type, "", TRUE, colData, FALSE, <<>>, FALSE, <<>>, FALSE, <<>>)

\* a row with Header.ColData, Rows.Row and (when hasSummary) Summary.ColData
HeaderRow(header, hasSummary, summary, rows) ==
    MkRow("Section", "", FALSE, <<>>, TRUE, header, hasSummary, summary, TRUE, rows)

\* colData[i]?.value || '' for the 0-based index i
ColValue(colData, i) ==
    IF i + 1 \in 1..Len(colData) THEN colData[i + 1] ELSE EmptyStr

\* v || d
OrElse(v, d) == IF v = EmptyStr THEN d ELSE v

Zero == <<"0">>
ZeroZero == <<"0.00">>

\* Array(n).fill('0')
ZeroFill(n) == [i \in 1..n |-> Zero]

\* Array.prototype.slice(from, to) for 0-based from <= to, to clamped to the length
Slice(a, from, to) ==
    LET hi == IF to > Len(a) THEN Len(a) ELSE to
    IN  IF from >= hi THEN <<>> ELSE [i \in 1..(hi - from) |-> a[from + i]]

\* a.map((col) => col?.value || '0')
MapOrZero(a) == [i \in 1..Len(a) |-> OrElse(a[i], Zero)]

---------------------------------------------------------------------------
(* constants.ts *)

\* the keys of the EXCLUSION_PATTERNS object
EXCLUSION_PATTERNS ==
    {"e17PayrollExpenses", "onlineSubscription", "travelConference", "expenseC",
     "expenseE"}

\* /E17\s*[-]?\s*PAYROLL\s+EXPENSES/i
PayrollExpensesAt(u, j) ==
    /\ j >= 1
    /\ j + 1 <= Len(u)
    /\ u[j] = "PAYROLL"
    /\ WordStartsWith(u[j + 1], "EXPENSES")

TestE17PayrollExpenses(s) ==
    LET u == toUpperCase(s)
    IN  \E i \in 1..Len(u) :
            /\ WordEndsWith(u[i], "E17")
            /\ \/ PayrollExpensesAt(u, i + 1)
               \/ (i + 1 <= Len(u) /\ u[i + 1] = "-" /\ PayrollExpensesAt(u, i + 2))

\* /ONLINE\s+SUBSCRIPTION/i
TestOnlineSubscription(s) == includes(toUpperCase(s), <<"ONLINE", "SUBSCRIPTION">>)

\* /TRAVEL/i and /CONFERENCE/i
TestTravel(s) == includes(toUpperCase(s), <<"TRAVEL">>)
TestConference(s) == includes(toUpperCase(s), <<"CONFERENCE">>)

\* /EXPENSE\s+C\b/i and /EXPENSE\s+E\b/i
TestExpenseLetter(s, letter) ==
    LET u == toUpperCase(s)
    IN  \E i \in 1..(Len(u) - 1) :
            WordEndsWith(u[i], "EXPENSE") /\ u[i + 1] = letter

TestExpenseC(s) == TestExpenseLetter(s, "C")
TestExpenseE(s) == TestExpenseLetter(s, "E")

INCOME_KEYWORDS == [clover |-> <<"CLOVER">>, courier |-> <<"COURIER">>]

---------------------------------------------------------------------------
(* utils/filters.ts: exclusion and keyword rules.  An absent                *)
(* expenseSectionHeader is the empty string: the code tests it for          *)
(* falsiness only.                                                          *)

isE17PayrollExpenses(label) ==
    \/ TestE17PayrollExpenses(label)
    \/ /\ startsWith(toUpperCase(label), "E17")
       /\ includes(toUpperCase(label), <<"PAYROLL", "EXPENSES">>)
       /\ ~includes(toUpperCase(label), <<"L">>)

\* a variant that applies the Expense C rule under every header
shouldExcludeFromExpenseC_AnyHeader(label, expenseSectionHeader) ==
    TestOnlineSubscription(label)

shouldExcludeFromExpenseC(label, expenseSectionHeader) ==
    IF expenseSectionHeader = EmptyStr THEN FALSE
    ELSE TestExpenseC(expenseSectionHeader) /\ TestOnlineSubscription(label)

shouldExcludeFromExpenseE(label, expenseSectionHeader) ==
    IF expenseSectionHeader = EmptyStr THEN FALSE
    ELSE /\ TestExpenseE(expenseSectionHeader)
         /\ TestTravel(label)
         /\ TestConference(label)

shouldExcludeItem(label, expenseSectionHeader) ==
    IF isE17PayrollExpenses(label) THEN TRUE
    ELSE IF shouldExcludeFromExpenseC(label, expenseSectionHeader) THEN TRUE
    ELSE IF shouldExcludeFromExpenseE(label, expenseSectionHeader) THEN TRUE
    ELSE FALSE

isPayrollSection(headerLabel, expenseSectionHeader) ==
    LET upperHeader == toUpperCase(headerLabel)
        upperExpenseHeader == toUpperCase(expenseSectionHeader)
    IN  \/ includes(upperExpenseHeader, <<"PAYROLL">>)
        \/ includes(upperHeader, <<"PAYROLL">>)
        \/ includes(upperHeader, <<"WAGES">>)
        \/ includes(upperHeader, <<"WAGE">>)

containsKeyword(label) ==
    LET upperLabel == toUpperCase(label)
    IN  [hasClover |-> includes(upperLabel, INCOME_KEYWORDS.clover),
         hasCourier |-> includes(upperLabel, INCOME_KEYWORDS.courier)]

\* the loop of searchForKeywords from row i on, with the flags found so far;
\* every break leaves the loop with both flags set
RECURSIVE SearchLoop(_, _, _, _)
SearchLoop(rows, i, foundClover, foundCourier) ==
    IF i > Len(rows) THEN [foundClover |-> foundClover, foundCourier |-> foundCourier]
    ELSE
      LET row == rows[i]
          dataHit == row.hasColData /\ row.type = "Data"
          kd == containsKeyword(ColValue(row.ColData, 0))
          c1 == foundClover \/ (dataHit /\ kd.hasClover)
          r1 == foundCourier \/ (dataHit /\ kd.hasCourier)
          kh == containsKeyword(ColValue(row.Header, 0))
          c2 == c1 \/ (row.hasHeader /\ kh.hasClover)
          r2 == r1 \/ (row.hasHeader /\ kh.hasCourier)
          nested == IF row.hasRows THEN SearchLoop(row.Rows, 1, FALSE, FALSE)
                    ELSE [foundClover |-> FALSE, foundCourier |-> FALSE]
          c3 == c2 \/ nested.foundClover
          r3 == r2 \/ nested.foundCourier
      IN  IF dataHit /\ c1 /\ r1
             THEN [foundClover |-> TRUE, foundCourier |-> TRUE]
          ELSE IF row.hasHeader /\ c2 /\ r2
             THEN [foundClover |-> TRUE, foundCourier |-> TRUE]
          ELSE IF row.hasRows /\ c3 /\ r3
             THEN [foundClover |-> TRUE, foundCourier |-> TRUE]
          ELSE SearchLoop(rows, i + 1, c3, r3)

searchForKeywords(rows) == SearchLoop(rows, 1, FALSE, FALSE)

---------------------------------------------------------------------------
(* utils/filters.ts: row utilities *)

isValidValue(value) ==
    IF value = EmptyStr THEN FALSE
    ELSE value # EmptyStr /\ value # Zero /\ value # ZeroZero

\* a variant that takes every row with ColData for a Data row
isDataRow_AnyType(row) == row.hasColData

isDataRow(row) == row.hasColData /\ (row.type = "" \/ row.type = "Data")

isHeaderRow(row) == row.hasHeader /\ row.hasRows

getDataRowLabel(row) == IF row.hasColData THEN ColValue(row.ColData, 0) ELSE EmptyStr

getDataRowValue(row) == IF row.hasColData THEN ColValue(row.ColData, 1) ELSE EmptyStr

\* getSummaryValue(row, preferLast = true)
getSummaryValue(row) ==
    IF ~row.hasSummary THEN EmptyStr
    ELSE IF Len(row.Summary) = 0 THEN EmptyStr
    ELSE IF Len(row.Summary) > 1
         THEN OrElse(ColValue(row.Summary, Len(row.Summary) - 1),
                     ColValue(row.Summary, 1))
    ELSE ColValue(row.Summary, 1)

getHeaderValue(row) == IF ~row.hasHeader THEN EmptyStr ELSE ColValue(row.Header, 1)

getHeaderLabel(row) == IF row.hasHeader THEN ColValue(row.Header, 0) ELSE EmptyStr

getSummaryLabel(row) == IF row.hasSummary THEN ColValue(row.Summary, 0) ELSE EmptyStr

\* a variant that looks at the Header before the Summary
getPreferredValue_HeaderFirst(row) ==
    LET summaryValue == getSummaryValue(row)
        headerValue == getHeaderValue(row)
    IN  IF isValidValue(headerValue)
           THEN [value |-> headerValue, source |-> "header"]
        ELSE IF isValidValue(summaryValue)
           THEN [value |-> summaryValue, source |-> "summary"]
        ELSE [value |-> ZeroZero, source |-> "default"]

getPreferredValue(row) ==
    LET summaryValue == getSummaryValue(row)
        headerValue == getHeaderValue(row)
    IN  IF isValidValue(summaryValue)
           THEN [value |-> summaryValue, source |-> "summary"]
        ELSE IF isValidValue(headerValue)
           THEN [value |-> headerValue, source |-> "header"]
        ELSE [value |-> ZeroZero, source |-> "default"]

getMonthValues(colData, numMonths) ==
    IF Len(colData) = 0 THEN ZeroFill(numMonths)
    ELSE
      LET monthValues == Slice(colData, 1, Len(colData) - 1)
      IN  IF Len(monthValues) >= numMonths
             THEN MapOrZero(Slice(monthValues, 0, numMonths))
          ELSE MapOrZero(Slice(colData, 1, numMonths + 1))

getTotalValue(colData) ==
    IF Len(colData) = 0 THEN Zero
    ELSE OrElse(ColValue(colData, Len(colData) - 1), Zero)

getMonthlyValues(row, numMonths) ==
    IF row.hasSummary
       THEN [values |-> getMonthValues(row.Summary, numMonths),
             total |-> getTotalValue(row.Summary)]
    ELSE IF row.hasHeader
       THEN [values |-> getMonthValues(row.Header, numMonths),
             total |-> getTotalValue(row.Header)]
    ELSE IF row.hasColData
       THEN [values |-> getMonthValues(row.ColData, numMonths),
             total |-> getTotalValue(row.ColData)]
    ELSE [values |-> ZeroFill(numMonths), total |-> Zero]

hasHeaderValue(row) ==
    IF ~row.hasHeader \/ Len(row.Header) < 2 THEN FALSE
    ELSE \E i \in 2..Len(row.Header) : isValidValue(row.Header[i])

hasHeaderMonthlyValue(row, numMonths) ==
    IF ~row.hasHeader \/ Len(row.Header) < 2 THEN FALSE
    ELSE
      LET monthValues == getMonthValues(row.Header, numMonths)
          total == getTotalValue(row.Header)
      IN  \/ \E i \in 1..Len(monthValues) : isValidValue(monthValues[i])
          \/ isValidValue(total)

---------------------------------------------------------------------------
(* parsers/base.ts *)

SectionTypes ==
    {"INCOME", "COST_OF_SALES", "EXPENSES", "OTHER_INCOME", "PROFIT", "GROSS_PROFIT"}

NoSection == "null"

\* a variant that tests the GROSS_PROFIT rule before the PROFIT rule
identifySectionType_GrossProfitFirst(row) ==
    LET headerValue == getHeaderLabel(row)
        summaryLabel == getSummaryLabel(row)
        upperHeader == toUpperCase(headerValue)
        upperSummary == toUpperCase(summaryLabel)
    IN  IF upperHeader = <<"INCOME">> \/ row.group = "Income" THEN "INCOME"
        ELSE IF \/ includes(upperHeader, <<"COST", "OF", "GOODS", "SOLD">>)
                \/ includes(upperHeader, <<"COST", "OF", "SALES">>)
                \/ row.group = "COGS" THEN "COST_OF_SALES"
        ELSE IF upperHeader = <<"EXPENSES">> \/ row.group = "Expenses" THEN "EXPENSES"
        ELSE IF includes(upperHeader, <<"OTHER", "INCOME">>) \/ row.group = "OtherIncome"
             THEN "OTHER_INCOME"
        ELSE IF \/ includes(upperSummary, <<"GROSS", "PROFIT">>)
                \/ includes(upperSummary, <<"GROSS", "INCOME">>) THEN "GROSS_PROFIT"
        ELSE IF \/ upperSummary = <<"PROFIT">>
                \/ upperSummary = <<"NET", "INCOME">>
                \/ row.group = "NetIncome" THEN "PROFIT"
        ELSE "null"

identifySectionType(row) ==
    LET headerValue == getHeaderLabel(row)
        summaryLabel == getSummaryLabel(row)
        upperHeader == toUpperCase(headerValue)
        upperSummary == toUpperCase(summaryLabel)
    IN  IF upperHeader = <<"INCOME">> \/ row.group = "Income" THEN "INCOME"
        ELSE IF \/ includes(upperHeader, <<"COST", "OF", "GOODS", "SOLD">>)
                \/ includes(upperHeader, <<"COST", "OF", "SALES">>)
                \/ row.group = "COGS" THEN "COST_OF_SALES"
        ELSE IF upperHeader = <<"EXPENSES">> \/ row.group = "Expenses" THEN "EXPENSES"
        ELSE IF includes(upperHeader, <<"OTHER", "INCOME">>) \/ row.group = "OtherIncome"
             THEN "OTHER_INCOME"
        ELSE IF \/ upperSummary = <<"PROFIT">>
                \/ upperSummary = <<"NET", "INCOME">>
                \/ row.group = "NetIncome" THEN "PROFIT"
        ELSE IF \/ includes(upperSummary, <<"GROSS", "PROFIT">>)
                \/ includes(upperSummary, <<"GROSS", "INCOME">>) THEN "GROSS_PROFIT"
        ELSE NoSection

\* shouldExcludeExpenseSection first reads EXCLUSION_PATTERNS.deleted.test: with no
\* key "deleted" in the object the property is undefined and the call throws a
\* TypeError.  [threw, value]
shouldExcludeExpenseSection(expenseHeader) ==
    LET upperExpenseHeader == toUpperCase(expenseHeader)
    IN  IF "deleted" \notin EXCLUSION_PATTERNS
           THEN [threw |-> TRUE, value |-> FALSE]
        ELSE [threw |-> FALSE,
              value |-> \/ includes(upperExpenseHeader, <<"(DELETED)">>)
                        \/ upperExpenseHeader = <<"E17", "PAYROLL", "EXPENSES">>
                        \/ /\ startsWith(upperExpenseHeader, "E17")
                           /\ includes(upperExpenseHeader, <<"PAYROLL", "EXPENSES">>)
                           /\ ~includes(upperExpenseHeader, <<"L">>)]

isExpenseSubSection(row) ==
    includes(toUpperCase(getHeaderLabel(row)), <<"EXPENSE">>) /\ row.hasRows

isTotalExpenses(summaryLabel) ==
    LET upper == toUpperCase(summaryLabel)
    IN  includes(upper, <<"TOTAL">>) /\ includes(upper, <<"EXPENSES">>)

\* extractPeriodSummaryValue / extractPeriodExpenseSummaryValue: summary?.[1]?.value || ''
extractPeriodSummaryValue(row) ==
    IF row.hasSummary THEN ColValue(row.Summary, 1) ELSE EmptyStr

extractMonthlySummaryValues(row, numMonths) ==
    IF row.hasSummary
       THEN [values |-> MapOrZero(Slice(Slice(row.Summary, 1, Len(row.Summary) - 1),
                                        0, numMonths)),
             total |-> OrElse(ColValue(row.Summary, Len(row.Summary) - 1), Zero)]
    ELSE [values |-> <<>>, total |-> Zero]

extractMonthlyExpenseSummaryValues(row, numMonths) ==
    IF row.hasSummary
       THEN [values |-> MapOrZero(Slice(row.Summary, 1, numMonths + 1)),
             total |-> OrElse(ColValue(row.Summary, Len(row.Summary) - 1), Zero)]
    ELSE [values |-> <<>>, total |-> Zero]

\* createTransformContext / createMonthlyTransformContext; keywordsFound is the
\* index of the fresh {foundClover: false, foundCourier: false} object
createTransformContext(expenseSectionHeader, indentLevel, isIncomeSection, kfRef) ==
    [expenseSectionHeader |-> expenseSectionHeader,
     indentLevel |-> indentLevel,
     isIncomeSection |-> isIncomeSection,
     keywordsFound |-> kfRef]

NoKeywords == [foundClover |-> FALSE, foundCourier |-> FALSE]

---------------------------------------------------------------------------
(* parsers/transformers/base.ts *)

\* an optional number: <<>> is undefined
calculateIndent_Always(indentLevel) == <<indentLevel>>

calculateIndent(indentLevel) == IF indentLevel > 0 THEN <<indentLevel>> ELSE <<>>

\* {...context, indentLevel: context.indentLevel + 1}: the spread copies the
\* reference to keywordsFound, the heap is left as it is.  [context, heap]
\* a variant that gives the nested context a copy of the flags object
createNestedContext_Copy(context, heap) ==
    [context |-> [context EXCEPT !.indentLevel = @ + 1,
                                 !.keywordsFound = Len(heap) + 1],
     heap |-> Append(heap, heap[context.keywordsFound])]

\* a variant that keeps the caller's indentLevel for the children
createNestedContext_SameLevel(context, heap) == [context |-> context, heap |-> heap]

createNestedContext(context, heap) ==
    [context |-> [context EXCEPT !.indentLevel = @ + 1], heap |-> heap]

\* updateKeywordsFound, on the flags object: flags are only ever set
updateKeywordsFound(hasClover, hasCourier, flags) ==
    [foundClover |-> IF hasClover THEN TRUE ELSE flags.foundClover,
     foundCourier |-> IF hasCourier THEN TRUE ELSE flags.foundCourier]

\* processDataRowLabel.  [shouldExclude, flags]
processDataRowLabel(label, context, flags) ==
    IF shouldExcludeItem(label, context.expenseSectionHeader)
       THEN [shouldExclude |-> TRUE, flags |-> flags]
    ELSE IF context.isIncomeSection
       THEN [shouldExclude |-> FALSE,
             flags |-> updateKeywordsFound(containsKeyword(label).hasClover,
                                           containsKeyword(label).hasCourier, flags)]
    ELSE [shouldExclude |-> FALSE, flags |-> flags]

\* the case transformHeaderRowItemsBase dispatches a Header row to
HeaderCase(row, context, flags) ==
    LET headerLabel == getHeaderLabel(row)
        headerKeywords == containsKeyword(headerLabel)
        nestedKeywords == searchForKeywords(row.Rows)
    IN  IF shouldExcludeItem(headerLabel, context.expenseSectionHeader) THEN "excluded"
        ELSE IF isPayrollSection(headerLabel, context.expenseSectionHeader) /\ row.hasRows
             THEN "payroll"
        ELSE IF context.isIncomeSection
             THEN IF flags.foundClover /\ flags.foundCourier THEN "incomeWithoutKeywords"
                  ELSE IF headerKeywords.hasClover \/ headerKeywords.hasCourier
                       THEN "incomeWithKeywords"
                  ELSE IF /\ row.hasRows
                          /\ nestedKeywords.foundClover \/ nestedKeywords.foundCourier
                       THEN "incomeWithNestedKeywords"
                  ELSE "incomeWithoutKeywords"
        ELSE "regular"

---------------------------------------------------------------------------
(* parsers/transformers/period.ts and monthly.ts: the handlers.  A handler  *)
(* returns [emit, recurse, flags]: the items it pushes itself, whether it   *)
(* then transforms row.Rows.Row with the nested context and appends the     *)
(* result, and the keywordsFound flags it leaves.                           *)

PeriodItem(label, value, indentLevel) ==
    [label |-> label, value |-> value, indent |-> calculateIndent(indentLevel)]

MonthlyItem(label, values, total, indentLevel) ==
    [label |-> label, values |-> values, total |-> total,
     indent |-> calculateIndent(indentLevel)]

Handled(emit, recurse, flags) == [emit |-> emit, recurse |-> recurse, flags |-> flags]

\* transformDataRowItem: null is no item emitted
transformDataRowItem(row, context, flags) ==
    LET label == getDataRowLabel(row)
        processed == processDataRowLabel(label, context, flags)
    IN  IF ~isDataRow(row) THEN Handled(<<>>, FALSE, flags)
        ELSE IF label = EmptyStr THEN Handled(<<>>, FALSE, flags)
        ELSE IF processed.shouldExclude THEN Handled(<<>>, FALSE, processed.flags)
        ELSE Handled(<<PeriodItem(label, getDataRowValue(row), context.indentLevel)>>,
                     FALSE, processed.flags)

transformMonthlyDataRowItem(row, context, flags, numMonths) ==
    LET label == getDataRowLabel(row)
        processed == processDataRowLabel(label, context, flags)
        values == MapOrZero(Slice(row.ColData, 1, numMonths + 1))
        total == OrElse(ColValue(row.ColData, Len(row.ColData) - 1), Zero)
    IN  IF ~isDataRow(row) \/ ~row.hasColData THEN Handled(<<>>, FALSE, flags)
        ELSE IF label = EmptyStr THEN Handled(<<>>, FALSE, flags)
        ELSE IF processed.shouldExclude THEN Handled(<<>>, FALSE, processed.flags)
        ELSE Handled(<<MonthlyItem(label, values, total, context.indentLevel)>>,
                     FALSE, processed.flags)

handlePayrollSection(row, context, flags) ==
    LET headerLabel == getHeaderLabel(row)
        preferred == getPreferredValue(row)
        summaryValue == ColValue(row.Summary, Len(row.Summary) - 1)
        fromSummary ==
            IF ~isValidValue(preferred.value) /\ row.hasSummary /\ isValidValue(summaryValue)
               THEN summaryValue ELSE preferred.value
        headerDisplayValue == IF ~isValidValue(fromSummary) THEN ZeroZero ELSE fromSummary
    IN  Handled(<<PeriodItem(headerLabel, headerDisplayValue, context.indentLevel)>>,
                row.hasRows, flags)

handleMonthlyPayrollSection(row, context, flags, numMonths) ==
    LET headerLabel == getHeaderLabel(row)
        got == getMonthlyValues(row, numMonths)
        summaryValues == getMonthlyValues(row, numMonths)
        display ==
            IF /\ ~hasHeaderMonthlyValue(row, numMonths)
               /\ row.hasSummary
               /\ isValidValue(summaryValues.total)
               THEN summaryValues ELSE got
        shown == IF ~isValidValue(display.total)
                    THEN [values |-> ZeroFill(numMonths), total |-> ZeroZero]
                 ELSE display
    IN  Handled(<<MonthlyItem(headerLabel, shown.values, shown.total, context.indentLevel)>>,
                row.hasRows, flags)

handleIncomeHeaderWithKeywords(row, context, flags) ==
    LET headerLabel == getHeaderLabel(row)
        headerKeywords == containsKeyword(headerLabel)
        updated == updateKeywordsFound(headerKeywords.hasClover,
                                       headerKeywords.hasCourier, flags)
        preferred == getPreferredValue(row)
    IN  IF ~headerKeywords.hasClover /\ ~headerKeywords.hasCourier
           THEN Handled(<<>>, FALSE, flags)
        ELSE IF isValidValue(preferred.value)
           THEN Handled(<<PeriodItem(headerLabel, preferred.value, context.indentLevel)>>,
                        FALSE, updated)
        ELSE Handled(<<>>, FALSE, updated)

handleMonthlyIncomeHeaderWithKeywords(row, context, flags, numMonths) ==
    LET headerLabel == getHeaderLabel(row)
        headerKeywords == containsKeyword(headerLabel)
        updated == updateKeywordsFound(headerKeywords.hasClover,
                                       headerKeywords.hasCourier, flags)
        got == getMonthlyValues(row, numMonths)
    IN  IF ~headerKeywords.hasClover /\ ~headerKeywords.hasCourier
           THEN Handled(<<>>, FALSE, flags)
        ELSE IF isValidValue(got.total)
           THEN Handled(<<MonthlyItem(headerLabel, got.values, got.total,
                                      context.indentLevel)>>, FALSE, updated)
        ELSE Handled(<<>>, FALSE, updated)

handleIncomeHeaderWithNestedKeywords(row, context, flags) ==
    LET headerLabel == getHeaderLabel(row)
        nestedKeywords == searchForKeywords(row.Rows)
        updated == updateKeywordsFound(nestedKeywords.foundClover,
                                       nestedKeywords.foundCourier, flags)
        preferred == getPreferredValue(row)
        headerValue == getHeaderValue(row)
    IN  IF ~row.hasRows THEN Handled(<<>>, FALSE, flags)
        ELSE IF ~nestedKeywords.foundClover /\ ~nestedKeywords.foundCourier
           THEN Handled(<<>>, FALSE, updated)
        ELSE IF isValidValue(preferred.value)
           THEN Handled(<<PeriodItem(headerLabel, preferred.value, context.indentLevel)>>,
                        TRUE, updated)
        ELSE IF hasHeaderValue(row)
           THEN Handled(IF isValidValue(headerValue)
                           THEN <<PeriodItem(headerLabel, headerValue, context.indentLevel)>>
                        ELSE <<>>,
                        TRUE, updated)
        ELSE Handled(<<>>, FALSE, updated)

handleMonthlyIncomeHeaderWithNestedKeywords(row, context, flags, numMonths) ==
    LET headerLabel == getHeaderLabel(row)
        nestedKeywords == searchForKeywords(row.Rows)
        updated == updateKeywordsFound(nestedKeywords.foundClover,
                                       nestedKeywords.foundCourier, flags)
        got == getMonthlyValues(row, numMonths)
        headerValues == getMonthlyValues(row, numMonths)
    IN  IF ~row.hasRows THEN Handled(<<>>, FALSE, flags)
        ELSE IF ~nestedKeywords.foundClover /\ ~nestedKeywords.foundCourier
           THEN Handled(<<>>, FALSE, updated)
        ELSE IF isValidValue(got.total)
           THEN Handled(<<MonthlyItem(headerLabel, got.values, got.total,
                                      context.indentLevel)>>, TRUE, updated)
        ELSE IF hasHeaderMonthlyValue(row, numMonths)
           THEN Handled(IF isValidValue(headerValues.total)
                           THEN <<MonthlyItem(headerLabel, headerValues.values,
                                              headerValues.total, context.indentLevel)>>
                        ELSE <<>>,
                        TRUE, updated)
        ELSE Handled(<<>>, FALSE, updated)

handleIncomeHeaderWithoutKeywords(row, context, flags) ==
    LET headerLabel == getHeaderLabel(row)
        preferred == getPreferredValue(row)
        summaryLabel == getSummaryLabel(row)
    IN  IF isValidValue(preferred.value)
           THEN Handled(<<PeriodItem(headerLabel, preferred.value, context.indentLevel)>>,
                        FALSE, flags)
        ELSE IF summaryLabel # EmptyStr /\ isValidValue(preferred.value)
           THEN Handled(<<PeriodItem(summaryLabel, preferred.value, context.indentLevel)>>,
                        FALSE, flags)
        ELSE Handled(<<>>, FALSE, flags)

handleMonthlyIncomeHeaderWithoutKeywords(row, context, flags, numMonths) ==
    LET headerLabel == getHeaderLabel(row)
        got == getMonthlyValues(row, numMonths)
        summaryLabel == getSummaryLabel(row)
    IN  IF headerLabel # EmptyStr /\ isValidValue(got.total)
           THEN Handled(<<MonthlyItem(headerLabel, got.values, got.total,
                                      context.indentLevel)>>, FALSE, flags)
        ELSE IF summaryLabel # EmptyStr /\ isValidValue(got.total)
           THEN Handled(<<MonthlyItem(summaryLabel, got.values, got.total,
                                      context.indentLevel)>>, FALSE, flags)
        ELSE Handled(<<>>, FALSE, flags)

\* a variant that goes on into the children as the payroll handler does
handleRegularSectionHeader_WithChildren(row, context, flags) ==
    Handled(<<PeriodItem(getHeaderLabel(row), getPreferredValue(row).value,
                         context.indentLevel)>>, row.hasRows, flags)

handleRegularSectionHeader(row, context, flags) ==
    LET headerLabel == getHeaderLabel(row)
        preferred == getPreferredValue(row)
        summaryLabel == getSummaryLabel(row)
        headerValue == getHeaderValue(row)
    IN  IF headerLabel # EmptyStr /\ isValidValue(preferred.value)
           THEN Handled(<<PeriodItem(headerLabel, preferred.value, context.indentLevel)>>,
                        FALSE, flags)
        ELSE IF summaryLabel # EmptyStr /\ isValidValue(preferred.value)
           THEN IF shouldExcludeItem(summaryLabel, context.expenseSectionHeader)
                   THEN Handled(<<>>, FALSE, flags)
                ELSE Handled(<<PeriodItem(summaryLabel, preferred.value,
                                          context.indentLevel)>>, FALSE, flags)
        ELSE IF hasHeaderValue(row) /\ isValidValue(headerValue)
           THEN Handled(<<PeriodItem(headerLabel, headerValue, context.indentLevel)>>,
                        FALSE, flags)
        ELSE Handled(<<>>, FALSE, flags)

handleMonthlyRegularSectionHeader(row, context, flags, numMonths) ==
    LET headerLabel == getHeaderLabel(row)
        got == getMonthlyValues(row, numMonths)
        summaryLabel == getSummaryLabel(row)
        headerValues == getMonthlyValues(row, numMonths)
    IN  IF headerLabel # EmptyStr /\ isValidValue(got.total)
           THEN Handled(<<MonthlyItem(headerLabel, got.values, got.total,
                                      context.indentLevel)>>, FALSE, flags)
        ELSE IF summaryLabel # EmptyStr /\ isValidValue(got.total)
           THEN IF shouldExcludeItem(summaryLabel, context.expenseSectionHeader)
                   THEN Handled(<<>>, FALSE, flags)
                ELSE Handled(<<MonthlyItem(summaryLabel, got.values, got.total,
                                           context.indentLevel)>>, FALSE, flags)
        ELSE IF hasHeaderMonthlyValue(row, numMonths) /\ isValidValue(headerValues.total)
           THEN Handled(<<MonthlyItem(headerLabel, headerValues.values, headerValues.total,
                                      context.indentLevel)>>, FALSE, flags)
        ELSE Handled(<<>>, FALSE, flags)

\* the handler transformHeaderRowItems / transformMonthlyHeaderRowItems pass for
\* the case, applied to the row
RunHandler(case, row, context, flags, monthly, numMonths) ==
    IF case = "excluded" THEN Handled(<<>>, FALSE, flags)
    ELSE IF case = "payroll"
       THEN IF monthly THEN handleMonthlyPayrollSection(row, context, flags, numMonths)
            ELSE handlePayrollSection(row, context, flags)
    ELSE IF case = "incomeWithKeywords"
       THEN IF monthly
               THEN handleMonthlyIncomeHeaderWithKeywords(row, context, flags, numMonths)
            ELSE handleIncomeHeaderWithKeywords(row, context, flags)
    ELSE IF case = "incomeWithNestedKeywords"
       THEN IF monthly
               THEN handleMonthlyIncomeHeaderWithNestedKeywords(row, context, flags,
                                                                numMonths)
            ELSE handleIncomeHeaderWithNestedKeywords(row, context, flags)
    ELSE IF case = "incomeWithoutKeywords"
       THEN IF monthly
               THEN handleMonthlyIncomeHeaderWithoutKeywords(row, context, flags,
                                                             numMonths)
            ELSE handleIncomeHeaderWithoutKeywords(row, context, flags)
    ELSE IF monthly THEN handleMonthlyRegularSectionHeader(row, context, flags, numMonths)
    ELSE handleRegularSectionHeader(row, context, flags)

\* transformHeaderRowItemsBase with the handlers of the mode
transformHeaderRowItemsBase(row, context, flags, monthly, numMonths) ==
    RunHandler(HeaderCase(row, context, flags), row, context, flags, monthly, numMonths)

---------------------------------------------------------------------------
(* The transformer as a machine: transformItemsBase's loop over rows, one   *)
(* row per step, with the recursion into row.Rows.Row as a stack of frames  *)
(* [rows, idx, context].  The nested items are appended to the caller's     *)
(* list right after the header's own item, so one list in push order is     *)
(* the list the outermost call returns.                                     *)

Monthly == report.monthly
NumMonths == report.numMonths

TopFrame == stack[Len(stack)]
CurRow == TopFrame.rows[TopFrame.idx]
CurFlags == keywordsFound[TopFrame.context.keywordsFound]

InTransform == pc = "transform" /\ stack # <<>>
AtRow == InTransform /\ TopFrame.idx <= Len(TopFrame.rows)

Advance(st) == [st EXCEPT ![Len(st)].idx = @ + 1]

LogEntry(row, case, h) ==
    [row |-> row,
     label |-> IF isDataRow(row) THEN getDataRowLabel(row) ELSE getHeaderLabel(row),
     depth |-> Len(stack) - 1,
     indentLevel |-> TopFrame.context.indentLevel,
     case |-> case,
     emit |-> h.emit,
     emitted |-> Len(h.emit),
     recurse |-> h.recurse,
     flagsBefore |-> CurFlags,
     flagsAfter |-> h.flags]

\* items.push(item) for what transformDataRow returned
PushDataItem(h) ==
    /\ items' = items \o h.emit
    /\ keywordsFound' = [keywordsFound EXCEPT ![TopFrame.context.keywordsFound] = h.flags]
    /\ log' = Append(log, LogEntry(CurRow, "data", h))

\* a Data row: transformDataRow, push the item if there is one
TransformDataRow ==
    /\ AtRow
    /\ isDataRow(CurRow)
    /\ PushDataItem(IF Monthly
                       THEN transformMonthlyDataRowItem(CurRow, TopFrame.context, CurFlags,
                                                        NumMonths)
                    ELSE transformDataRowItem(CurRow, TopFrame.context, CurFlags))
    /\ stack' = Advance(stack)
    /\ UNCHANGED <<report, pc, rowIdx, expIdx, sectionType, result, origin>>
    /\ UNCHANGED <<fnVars, layoutVars, renderVars>>

\* items.push(...headerItems) for what the handler h of the case returned
PushHeaderItems(h, case) ==
    LET heap == [keywordsFound EXCEPT ![TopFrame.context.keywordsFound] = h.flags]
        nested == createNestedContext(TopFrame.context, heap)
    IN  /\ items' = items \o h.emit
        /\ log' = Append(log, LogEntry(CurRow, case, h))
        /\ IF h.recurse
              THEN /\ keywordsFound' = nested.heap
                   /\ stack' = Append(Advance(stack),
                                      [rows |-> CurRow.Rows, idx |-> 1,
                                       context |-> nested.context])
           ELSE /\ keywordsFound' = heap
                /\ stack' = Advance(stack)

\* a Header row: transformHeaderRow, push its items, children included
TransformHeaderRow ==
    /\ AtRow
    /\ ~isDataRow(CurRow)
    /\ isHeaderRow(CurRow)
    /\ PushHeaderItems(transformHeaderRowItemsBase(CurRow, TopFrame.context, CurFlags,
                                                   Monthly, NumMonths),
                       HeaderCase(CurRow, TopFrame.context, CurFlags))
    /\ UNCHANGED <<report, pc, rowIdx, expIdx, sectionType, result, origin>>
    /\ UNCHANGED <<fnVars, layoutVars, renderVars>>

\* a row that is neither: the loop goes on to the next row
TransformOtherRow ==
    /\ AtRow
    /\ ~isDataRow(CurRow)
    /\ ~isHeaderRow(CurRow)
    /\ stack' = Advance(stack)
    /\ log' = Append(log, LogEntry(CurRow, "dropped",
                                   Handled(<<>>, FALSE, CurFlags)))
    /\ UNCHANGED <<report, pc, rowIdx, expIdx, sectionType, result, origin, items,
                   keywordsFound>>
    /\ UNCHANGED <<fnVars, layoutVars, renderVars>>

\* the loop of a nested call is over: return to the caller
TransformReturn ==
    /\ InTransform
    /\ TopFrame.idx > Len(TopFrame.rows)
    /\ stack' = SubSeq(stack, 1, Len(stack) - 1)
    /\ UNCHANGED <<report, pc, rowIdx, expIdx, sectionType, result, origin, items,
                   keywordsFound, log>>
    /\ UNCHANGED <<fnVars, layoutVars, renderVars>>

---------------------------------------------------------------------------
(* parsers/period.ts and parsers/monthly.ts: parseReportData and            *)
(* parseReportDataMonthly, one top-level row (or one child of the Expenses  *)
(* row) per step.                                                           *)

Null == [isNull |-> TRUE]

\* row.Rows?.Row || []
ChildRows(row) == IF row.hasRows THEN row.Rows ELSE <<>>

CurTopRow == report.rows[rowIdx]
CurExpenseRow == ChildRows(CurTopRow)[expIdx]

\* {label: summaryLabel, value(s): ...} of a top-level row
SummaryLine(row) ==
    IF Monthly
       THEN [isNull |-> FALSE, label |-> getSummaryLabel(row),
             values |-> extractMonthlySummaryValues(row, NumMonths).values,
             total |-> extractMonthlySummaryValues(row, NumMonths).total]
    ELSE [isNull |-> FALSE, label |-> getSummaryLabel(row),
          value |-> extractPeriodSummaryValue(row)]

\* the total of a section: in monthly mode null when the summary label is empty
SectionTotal(row) ==
    IF Monthly /\ getSummaryLabel(row) = EmptyStr THEN Null ELSE SummaryLine(row)

\* the total of an expense sub-section
ExpenseSectionTotal(expenseRow) ==
    IF Monthly
       THEN IF getSummaryLabel(expenseRow) = EmptyStr THEN Null
            ELSE [isNull |-> FALSE, label |-> getSummaryLabel(expenseRow),
                  values |-> extractMonthlyExpenseSummaryValues(expenseRow, NumMonths).values,
                  total |-> extractMonthlyExpenseSummaryValues(expenseRow, NumMonths).total]
    ELSE [isNull |-> FALSE, label |-> getSummaryLabel(expenseRow),
          value |-> extractPeriodSummaryValue(expenseRow)]

Section(header, its, total, isImportant) ==
    [isNull |-> FALSE, header |-> header, items |-> its, total |-> total,
     isImportant |-> isImportant]

EmptyResult ==
    [income |-> Null, costOfSales |-> Null, grossProfit |-> Null,
     expenseSections |-> <<>>, expensesTotal |-> Null, otherIncome |-> Null,
     profit |-> Null]

NoOrigin ==
    [income |-> 0, costOfSales |-> 0, grossProfit |-> 0, expenseSections |-> <<>>,
     expensesTotal |-> 0, otherIncome |-> 0, profit |-> 0]

\* const context = create...TransformContext(...); transformItems(rows, context)
CallTransform(rows, expenseSectionHeader, isIncomeSection) ==
    /\ keywordsFound' = <<NoKeywords>>
    /\ stack' = <<[rows |-> rows, idx |-> 1,
                   context |-> createTransformContext(expenseSectionHeader, 0,
                                                      isIncomeSection, 1)]>>
    /\ items' = <<>>
    /\ log' = <<>>
    /\ pc' = "transform"

AtTopRow == pc = "row" /\ rowIdx <= Len(report.rows)

\* INCOME, COST_OF_SALES or OTHER_INCOME: transform the row's children
ParseSectionRow ==
    /\ AtTopRow
    /\ identifySectionType(CurTopRow) \in {"INCOME", "COST_OF_SALES", "OTHER_INCOME"}
    /\ sectionType' = identifySectionType(CurTopRow)
    /\ CallTransform(ChildRows(CurTopRow), EmptyStr,
                     identifySectionType(CurTopRow) = "INCOME")
    /\ UNCHANGED <<report, rowIdx, expIdx, result, origin>>
    /\ UNCHANGED <<fnVars, layoutVars, renderVars>>

\* GROSS_PROFIT or PROFIT: the row's Summary, no children
ParseSummaryRow ==
    /\ AtTopRow
    /\ identifySectionType(CurTopRow) \in {"GROSS_PROFIT", "PROFIT"}
    /\ sectionType' = identifySectionType(CurTopRow)
    /\ IF identifySectionType(CurTopRow) = "GROSS_PROFIT"
          THEN /\ result' = [result EXCEPT !.grossProfit = SummaryLine(CurTopRow)]
               /\ origin' = [origin EXCEPT !.grossProfit = rowIdx]
       ELSE /\ result' = [result EXCEPT !.profit = SummaryLine(CurTopRow)]
            /\ origin' = [origin EXCEPT !.profit = rowIdx]
    /\ rowIdx' = rowIdx + 1
    /\ UNCHANGED <<report, pc, expIdx, stack, keywordsFound, items, log>>
    /\ UNCHANGED <<fnVars, layoutVars, renderVars>>

\* EXPENSES: enter the loop over the row's children
ParseExpensesRow ==
    /\ AtTopRow
    /\ identifySectionType(CurTopRow) = "EXPENSES"
    /\ sectionType' = "EXPENSES"
    /\ expIdx' = 1
    /\ pc' = "expense"
    /\ UNCHANGED <<report, rowIdx, stack, keywordsFound, items, result, origin, log>>
    /\ UNCHANGED <<fnVars, layoutVars, renderVars>>

\* a row of no section type is passed over
ParseUnclassifiedRow ==
    /\ AtTopRow
    /\ identifySectionType(CurTopRow) = NoSection
    /\ sectionType' = NoSection
    /\ rowIdx' = rowIdx + 1
    /\ UNCHANGED <<report, pc, expIdx, stack, keywordsFound, items, result, origin, log>>
    /\ UNCHANGED <<fnVars, layoutVars, renderVars>>

AtExpenseRow == pc = "expense" /\ expIdx <= Len(ChildRows(CurTopRow))

\* a child of the Expenses row that is a sub-section: the exclusion test (which
\* throws), then the transform of its children
ParseExpenseSubSection ==
    /\ AtExpenseRow
    /\ isExpenseSubSection(CurExpenseRow)
    /\ LET excluded == shouldExcludeExpenseSection(getHeaderLabel(CurExpenseRow))
       IN  IF excluded.threw
              THEN /\ pc' = "threw"
                   /\ UNCHANGED <<expIdx, stack, keywordsFound, items, log>>
           ELSE IF excluded.value
              THEN /\ expIdx' = expIdx + 1
                   /\ UNCHANGED <<pc, stack, keywordsFound, items, log>>
           ELSE /\ CallTransform(CurExpenseRow.Rows, getHeaderLabel(CurExpenseRow), FALSE)
                /\ UNCHANGED expIdx
    /\ UNCHANGED <<report, rowIdx, sectionType, result, origin>>
    /\ UNCHANGED <<fnVars, layoutVars, renderVars>>

\* a child of the Expenses row that is no sub-section
ParseExpenseOtherRow ==
    /\ AtExpenseRow
    /\ ~isExpenseSubSection(CurExpenseRow)
    /\ expIdx' = expIdx + 1
    /\ UNCHANGED <<report, pc, rowIdx, sectionType, stack, keywordsFound, items, result,
                   origin, log>>
    /\ UNCHANGED <<fnVars, layoutVars, renderVars>>

\* after the children: the Expenses grand total
ParseExpensesTotal ==
    /\ pc = "expense"
    /\ expIdx > Len(ChildRows(CurTopRow))
    /\ IF isTotalExpenses(getSummaryLabel(CurTopRow))
          THEN /\ result' = [result EXCEPT !.expensesTotal = SummaryLine(CurTopRow)]
               /\ origin' = [origin EXCEPT !.expensesTotal = rowIdx]
       ELSE UNCHANGED <<result, origin>>
    /\ rowIdx' = rowIdx + 1
    /\ pc' = "row"
    /\ UNCHANGED <<report, expIdx, sectionType, stack, keywordsFound, items, log>>
    /\ UNCHANGED <<fnVars, layoutVars, renderVars>>

\* transformItems has returned: a direct call is over, the parser stores the section
TransformDone ==
    /\ pc = "transform"
    /\ stack = <<>>
    /\ IF report.entry = "transform"
          THEN /\ pc' = "done"
               /\ UNCHANGED <<rowIdx, expIdx, result, origin>>
       ELSE IF sectionType = "EXPENSES"
          THEN /\ result' = [result EXCEPT !.expenseSections =
                                Append(@, [header |-> getHeaderLabel(CurExpenseRow),
                                           items |-> items,
                                           total |-> ExpenseSectionTotal(CurExpenseRow)])]
               /\ origin' = [origin EXCEPT !.expenseSections = Append(@, rowIdx)]
               /\ expIdx' = expIdx + 1
               /\ pc' = "expense"
               /\ UNCHANGED rowIdx
       ELSE /\ result' =
                  IF sectionType = "INCOME"
                     THEN [result EXCEPT !.income =
                              Section(<<"Income">>, items, SectionTotal(CurTopRow), FALSE)]
                  ELSE IF sectionType = "COST_OF_SALES"
                     THEN [result EXCEPT !.costOfSales =
                              Section(<<"Cost", "of", "Sales">>, items,
                                      SectionTotal(CurTopRow), TRUE)]
                  ELSE [result EXCEPT !.otherIncome =
                           Section(<<"Other", "Income">>, items, SectionTotal(CurTopRow),
                                   FALSE)]
            /\ origin' =
                  IF sectionType = "INCOME" THEN [origin EXCEPT !.income = rowIdx]
                  ELSE IF sectionType = "COST_OF_SALES"
                     THEN [origin EXCEPT !.costOfSales = rowIdx]
                  ELSE [origin EXCEPT !.otherIncome = rowIdx]
            /\ rowIdx' = rowIdx + 1
            /\ pc' = "row"
            /\ UNCHANGED expIdx
    /\ UNCHANGED <<report, sectionType, stack, keywordsFound, items, log>>
    /\ UNCHANGED <<fnVars, layoutVars, renderVars>>

\* the forEach is over: return the parsed model
ParseReturn ==
    /\ pc = "row"
    /\ rowIdx > Len(report.rows)
    /\ pc' = "done"
    /\ UNCHANGED <<report, rowIdx, expIdx, sectionType, stack, keywordsFound, items,
                   result, origin, log>>
    /\ UNCHANGED <<fnVars, layoutVars, renderVars>>

---------------------------------------------------------------------------
(* Numbers.  A JavaScript number is [kind, c]: kind "num" with c its value  *)
(* in hundredths, or kind "NaN".  The text of a percentage or of a target   *)
(* annotation is a plain string, "" when nothing is shown.                  *)

Num(c) == [kind |-> "num", c |-> c]
NaN == [kind |-> "NaN", c |-> 0]
Undefined == [kind |-> "undefined", c |-> 0]

isNaN(n) == n.kind = "NaN"

\* the number a numeral of the reports reads as; any other word is no number
NumeralValue(w) ==
    CASE w = "0" -> Num(0)
      [] w = "0.00" -> Num(0)
      [] w = "5.00" -> Num(500)
      [] w = "7.00" -> Num(700)
      [] w = "12.00" -> Num(1200)
      [] w = "50.00" -> Num(5000)
      [] w = "100.00" -> Num(10000)
      [] w = "-5.00" -> Num(0 - 500)
      [] OTHER -> NaN

\* parseFloat(s): the number the string starts with
parseFloat(s) == IF s = EmptyStr THEN NaN ELSE NumeralValue(s[1])

\* n || 0
OrZero(n) == IF isNaN(n) \/ n = Num(0) THEN Num(0) ELSE n

Abs(n) == IF n < 0 THEN 0 - n ELSE n

TwoDigits(n) == IF n < 10 THEN "0" \o ToString(n) ELSE ToString(n)

\* (a / b).toFixed(2) for integers a and b, b not 0: the nearest hundredth,
\* the larger one on a tie, after the sign
toFixed2(a, b) ==
    LET q == (200 * Abs(a) + Abs(b)) \div (2 * Abs(b))
    IN  (IF a # 0 /\ ((a < 0) # (b < 0)) THEN "-" ELSE "")
        \o ToString(q \div 100) \o "." \o TwoDigits(q % 100)

\* the text without the rule for a percentage within 0.001 of 100
PercentageText_NoNormalisation(numValue, base) ==
    IF isNaN(base) THEN "NaN%"
    ELSE toFixed2(100 * numValue.c, base.c) \o "%"

\* percentage = (numValue / base) * 100 and its text, for a number numValue
\* and a base that is not 0
PercentageText(numValue, base) ==
    IF isNaN(base) THEN "NaN%"
    ELSE IF 100000 * Abs(numValue.c - base.c) < Abs(base.c) THEN "100%"
    ELSE toFixed2(100 * numValue.c, base.c) \o "%"

---------------------------------------------------------------------------
(* renderers/PeriodModeRenderer.ts and MonthlyModeRenderer.ts: percentages *)

\* PeriodModeRenderer.calculatePercentage(value) with this.incomeTotal
calculatePercentage(value, incomeTotal) ==
    IF value = EmptyStr \/ incomeTotal = Num(0) THEN ""
    ELSE IF isNaN(parseFloat(value)) THEN ""
    ELSE PercentageText(parseFloat(value), incomeTotal)

\* the baseIncome MonthlyModeRenderer.calculatePercentage picks; monthIndex is
\* 0-based
baseIncome(isTotalColumn, monthIndex, incomeTotalForMonths, incomeTotalForTotal) ==
    IF isTotalColumn THEN incomeTotalForTotal
    ELSE IF monthIndex < Len(incomeTotalForMonths)
       THEN OrZero(incomeTotalForMonths[monthIndex + 1])
    ELSE IF Len(incomeTotalForMonths) > 0 THEN OrZero(incomeTotalForMonths[1])
    ELSE Num(0)

\* MonthlyModeRenderer.calculatePercentage(value, isTotalColumn, monthIndex)
calculateMonthlyPercentage(value, isTotalColumn, monthIndex, forMonths, forTotal) ==
    IF value = EmptyStr THEN ""
    ELSE IF isNaN(parseFloat(value)) THEN ""
    ELSE IF baseIncome(isTotalColumn, monthIndex, forMonths, forTotal) = Num(0) THEN ""
    ELSE PercentageText(parseFloat(value),
                        baseIncome(isTotalColumn, monthIndex, forMonths, forTotal))

---------------------------------------------------------------------------
(* targetPercentages.ts and BaseRenderer.drawTargetPercentage *)

DEFAULT_TARGET_PERCENTAGES ==
    [costOfSales |-> Num(3000), payroll |-> Num(2500), profit |-> Num(1500)]

\* x ?? d
Coalesce(x, d) == IF x = Undefined THEN d ELSE x

\* getTargetPercentagesWithDefaults(partial): partial is Undefined or an object
\* whose fields are numbers or Undefined
getTargetPercentagesWithDefaults(partial) ==
    IF partial = Undefined THEN DEFAULT_TARGET_PERCENTAGES
    ELSE [costOfSales |-> Coalesce(partial.costOfSales,
                                   DEFAULT_TARGET_PERCENTAGES.costOfSales),
          payroll |-> Coalesce(partial.payroll, DEFAULT_TARGET_PERCENTAGES.payroll),
          profit |-> Coalesce(partial.profit, DEFAULT_TARGET_PERCENTAGES.profit)]

\* the annotation drawTargetPercentage draws under the line of a section: none
\* for a target that is undefined or no number
drawTargetPercentage(targetPercent, section) ==
    IF targetPercent = Undefined \/ isNaN(targetPercent) THEN <<>>
    ELSE <<[section |-> section, kind |-> "target", label |-> EmptyStr, col |-> 0,
            value |-> EmptyStr,
            percentage |-> "Target: " \o toFixed2(targetPercent.c, 100) \o "%",
            base |-> targetPercent]>>

\* BaseRenderer.labelContainsKeyword(label, keyword) for a one-word keyword
labelContainsKeyword(label, keyword) == includes(toUpperCase(label), <<keyword>>)

isFixedExpense(header) == labelContainsKeyword(header, "FIXED")

---------------------------------------------------------------------------
(* pdf/index.ts generatePDFFromReportData and the two render strategies,    *)
(* one draw call of render per step.  What render draws is kept in drawn,   *)
(* line by line in drawing order: a cell per value with the percentage      *)
(* printed next to it (col 0 is the period's or the total column, col i the *)
(* column of month i), and a target record right after the line it is drawn *)
(* beneath.                                                                 *)

Cell(section, kind, label, col, value, percentage, base) ==
    [section |-> section, kind |-> kind, label |-> label, col |-> col,
     value |-> value, percentage |-> percentage, base |-> base]

RECURSIVE Flatten(_)
Flatten(ss) == IF ss = <<>> THEN <<>> ELSE Head(ss) \o Flatten(Tail(ss))

\* PeriodModeRenderer: the value of a line and calculatePercentage of it
PeriodLine(section, kind, label, value, tot) ==
    <<Cell(section, kind, label, 0, value,
           calculatePercentage(value, tot.incomeTotal), tot.incomeTotal)>>

\* MonthlyModeRenderer.drawItemValues / drawTotalValues: the month columns when
\* there are several months, then the total column
MonthlyLine(section, kind, label, values, total, tot) ==
    (IF tot.showMonthColumns
        THEN [i \in 1..Len(values) |->
                 Cell(section, kind, label, i, values[i],
                      calculateMonthlyPercentage(values[i], FALSE, i - 1,
                                                 tot.incomeTotalForMonths,
                                                 tot.incomeTotalForTotal),
                      baseIncome(FALSE, i - 1, tot.incomeTotalForMonths,
                                 tot.incomeTotalForTotal))]
     ELSE <<>>)
    \o <<Cell(section, kind, label, 0, total,
              calculateMonthlyPercentage(total, TRUE, 0, tot.incomeTotalForMonths,
                                         tot.incomeTotalForTotal),
              tot.incomeTotalForTotal)>>

DrawLine(section, kind, line, monthly, tot) ==
    IF monthly THEN MonthlyLine(section, kind, line.label, line.values, line.total, tot)
    ELSE PeriodLine(section, kind, line.label, line.value, tot)

\* if (targetPercent !== undefined) renderer.drawTargetPercentage(targetPercent, ...)
DrawTarget(targetPercent, section) ==
    IF targetPercent = Undefined THEN <<>> ELSE drawTargetPercentage(targetPercent, section)

\* drawSectionItems
drawSectionItems(name, its, monthly, tot) ==
    Flatten([i \in 1..Len(its) |-> DrawLine(name, "item", its[i], monthly, tot)])

\* whether a total line is drawn: period mode wants a label and a value, monthly
\* mode a total that is not null
TotalShown(total, monthly) ==
    IF total.isNull THEN FALSE
    ELSE monthly \/ (total.label # EmptyStr /\ total.value # EmptyStr)

\* drawSectionTotal
drawSectionTotal(name, total, targetPercent, monthly, tot) ==
    IF ~TotalShown(total, monthly) THEN <<>>
    ELSE DrawLine(name, "total", total, monthly, tot) \o DrawTarget(targetPercent, name)

\* drawSection
drawSection(name, section, targetPercent, monthly, tot) ==
    IF section.isNull THEN <<>>
    ELSE drawSectionItems(name, section.items, monthly, tot)
         \o drawSectionTotal(name, section.total, targetPercent, monthly, tot)

\* drawExpenseSectionTotal
drawExpenseSectionTotal(total, targetPercentages, monthly, tot) ==
    IF ~TotalShown(total, monthly) THEN <<>>
    ELSE DrawLine("expenses", "subtotal", total, monthly, tot)
         \o (IF labelContainsKeyword(total.label, "PAYROLL")
                THEN DrawTarget(targetPercentages.payroll, "payroll")
             ELSE <<>>)

\* drawExpenseSection
drawExpenseSection(expenseSection, targetPercentages, monthly, tot) ==
    (IF isFixedExpense(expenseSection.header) THEN <<>>
     ELSE drawSectionItems("expenses", expenseSection.items, monthly, tot))
    \o drawExpenseSectionTotal(expenseSection.total, targetPercentages, monthly, tot)

\* drawExpenses, drawExpensesTotal included
drawExpenses(sections, total, targetPercentages, monthly, tot) ==
    Flatten([i \in 1..Len(sections) |->
                drawExpenseSection(sections[i], targetPercentages, monthly, tot)])
    \o (IF total.isNull THEN <<>> ELSE DrawLine("expenses", "total", total, monthly, tot))

\* drawProfit
drawProfit(profit, targetPercentages, monthly, tot) ==
    IF profit.isNull THEN <<>>
    ELSE DrawLine("profit", "total", profit, monthly, tot)
         \o DrawTarget(targetPercentages.profit, "profit")

\* value ? parseFloat(value) : 0
ParseOrZero(value) == IF value = EmptyStr THEN Num(0) ELSE parseFloat(value)

\* the first statements of render: this.incomeTotal in period mode,
\* this.incomeTotalForMonths and this.incomeTotalForTotal in monthly mode
IncomeTotalsOf(data, monthly, numMonths) ==
    LET total == IF data.income.isNull THEN Null ELSE data.income.total
    IN  [showMonthColumns |-> monthly /\ numMonths > 1,
         incomeTotal |->
            IF monthly \/ total.isNull THEN Num(0) ELSE ParseOrZero(total.value),
         incomeTotalForMonths |->
            IF ~monthly \/ total.isNull THEN <<>>
            ELSE [i \in 1..Len(total.values) |-> parseFloat(OrElse(total.values[i], Zero))],
         incomeTotalForTotal |->
            IF ~monthly \/ total.isNull THEN Num(0) ELSE ParseOrZero(total.total)]

\* generatePDFFromReportData(reportData, ..., targetPercentages): the targets are
\* resolved, the report is parsed, and the strategy's render is called
CallRender(targetPercentages) ==
    /\ pc = "done"
    /\ report.entry = "parse"
    /\ rpc = "idle"
    /\ parsed' = [mode |-> IF Monthly THEN "monthly" ELSE "period",
                  monthly |-> Monthly, numMonths |-> NumMonths, data |-> result]
    /\ targets' = [arg |-> targetPercentages,
                   resolved |-> getTargetPercentagesWithDefaults(targetPercentages)]
    /\ rpc' = "render"
    /\ UNCHANGED <<incomeTotals, drawn>>
    /\ UNCHANGED <<fnVars, parseVars, layoutVars>>

\* render: the income totals the percentages are taken of
Render ==
    /\ rpc = "render"
    /\ incomeTotals' = IncomeTotalsOf(parsed.data, parsed.monthly, parsed.numMonths)
    /\ rpc' = "income"
    /\ UNCHANGED <<parsed, targets, drawn>>
    /\ UNCHANGED <<fnVars, parseVars, layoutVars>>

\* this.drawSection(renderer, parsedData.income)
DrawIncome ==
    /\ rpc = "income"
    /\ drawn' = drawn \o drawSection("income", parsed.data.income, Undefined,
                                     parsed.monthly, incomeTotals)
    /\ rpc' = "costOfSales"
    /\ UNCHANGED <<parsed, targets, incomeTotals>>
    /\ UNCHANGED <<fnVars, parseVars, layoutVars>>

\* this.drawSection(renderer, parsedData.costOfSales, ..., targetPercentages?.costOfSales)
DrawCostOfSales ==
    /\ rpc = "costOfSales"
    /\ drawn' = drawn \o drawSection("costOfSales", parsed.data.costOfSales,
                                     targets.resolved.costOfSales, parsed.monthly,
                                     incomeTotals)
    /\ rpc' = "expenses"
    /\ UNCHANGED <<parsed, targets, incomeTotals>>
    /\ UNCHANGED <<fnVars, parseVars, layoutVars>>

\* this.drawExpenses(renderer, parsedData.expenses, targetPercentages)
DrawExpenses ==
    /\ rpc = "expenses"
    /\ drawn' = drawn \o drawExpenses(parsed.data.expenseSections,
                                      parsed.data.expensesTotal, targets.resolved,
                                      parsed.monthly, incomeTotals)
    /\ rpc' = "otherIncome"
    /\ UNCHANGED <<parsed, targets, incomeTotals>>
    /\ UNCHANGED <<fnVars, parseVars, layoutVars>>

\* this.drawSection(renderer, parsedData.otherIncome)
DrawOtherIncome ==
    /\ rpc = "otherIncome"
    /\ drawn' = drawn \o drawSection("otherIncome", parsed.data.otherIncome, Undefined,
                                     parsed.monthly, incomeTotals)
    /\ rpc' = "profit"
    /\ UNCHANGED <<parsed, targets, incomeTotals>>
    /\ UNCHANGED <<fnVars, parseVars, layoutVars>>

\* this.drawProfit(renderer, parsedData.profit, targetPercentages)
DrawProfit ==
    /\ rpc = "profit"
    /\ drawn' = drawn \o drawProfit(parsed.data.profit, targets.resolved,
                                    parsed.monthly, incomeTotals)
    /\ rpc' = "done"
    /\ UNCHANGED <<parsed, targets, incomeTotals>>
    /\ UNCHANGED <<fnVars, parseVars, layoutVars>>

---------------------------------------------------------------------------
(* Inputs *)

SeqsUpTo(S, n) == UNION {[1..k -> S] : k \in 0..n}
NonEmptySeqsUpTo(S, n) == UNION {[1..k -> S] : k \in 1..n}

V5 == <<"5.00">>
V7 == <<"7.00">>
V12 == <<"12.00">>
V100 == <<"100.00">>

LSales == <<"Sales">>
LClover == <<"Clover", "Sales">>
LCourier == <<"Courier">>
LCatering == <<"Catering">>
LPayroll == <<"Payroll">>
LWages == <<"Wages">>
LRent == <<"Rent">>
LE17 == <<"E17", "Payroll", "Expenses">>
LOnline == <<"Online", "Subscription">>
LTravel == <<"Travel">>
LTravelConf == <<"Travel", "Conference">>
LTotalIncome == <<"Total", "Income">>
LTotalExpenses == <<"Total", "Expenses">>

\* children lists of the Header rows below
KidsTypelessClover == <<DataRow("", <<LClover, V5, V5>>)>>
KidsTypedClover == <<DataRow("Data", <<LClover, V5, V5>>), DataRow("Data", <<LSales, V7>>)>>
KidsSales == <<DataRow("Data", <<LSales, V7, V5, V12>>)>>
KidsHeaderClover ==
    <<HeaderRow(<<LClover>>, TRUE, <<<<"Total">>, V5, V5>>, KidsSales)>>
KidsSalesThenClover ==
    <<HeaderRow(<<LSales>>, TRUE, <<<<"Total">>, V5, V5>>, KidsSales),
      DataRow("Data", <<LClover, V5, V5>>)>>

\* rows of an Income section's child list
IncomePool ==
    { DataRow("Data", <<LClover, V5, V5>>),
      DataRow("", <<LCourier, V7>>),
      HeaderRow(<<LSales>>, TRUE, <<<<"Total">>, V5, V5>>, KidsTypelessClover),
      HeaderRow(<<LSales>>, TRUE, <<<<"Total">>, V12, V12>>, KidsTypedClover),
      HeaderRow(<<LCourier, V7>>, FALSE, <<>>, KidsSales),
      HeaderRow(<<EmptyStr>>, TRUE, <<LE17, V5, V5, V5>>, <<>>),
      HeaderRow(<<LCatering>>, FALSE, <<>>, KidsHeaderClover),
      HeaderRow(<<LPayroll>>, TRUE, <<<<"Total">>, Zero>>, KidsTypedClover),
      HeaderRow(<<LCatering>>, TRUE, <<<<"Total">>, V12, V12>>, KidsSalesThenClover),
      MkRow("Section", "", TRUE, <<LCourier, V5>>, FALSE, <<>>, FALSE, <<>>, FALSE, <<>>) }

\* rows of the other sections' child lists
ExpensePool ==
    { DataRow("Data", <<LOnline, V5, V5>>),
      DataRow("", <<LTravelConf, V7, V5, V12>>),
      DataRow("Data", <<LTravel>>),
      DataRow("Data", <<LE17, V5>>),
      HeaderRow(<<LRent, V7>>, TRUE, <<<<"Total", "Rent">>, V12, V12>>, KidsSales),
      HeaderRow(<<EmptyStr>>, TRUE, <<LOnline, V5, V5>>, KidsSales),
      HeaderRow(<<LE17, V5>>, TRUE, <<<<"Total">>, V5, V5>>, KidsSales),
      HeaderRow(<<LPayroll>>, TRUE, <<<<"Total">>, V5, V5>>, KidsHeaderClover),
      HeaderRow(<<LWages>>, FALSE, <<>>, <<DataRow("Data", <<LE17, V5, V5>>),
                                           DataRow("", <<LRent, V5, V5>>)>>),
      MkRow("Section", "", TRUE, <<LRent, V5>>, FALSE, <<>>, FALSE, <<>>, TRUE, KidsSales) }

ExpenseHeaders ==
    { EmptyStr, <<"Expense", "A">>, <<"Expense", "C">>, <<"Expense", "E">>,
      <<"Payroll", "Expense">>, <<"Wages", "Expense">> }

\* the mode of a call: period, or monthly with 1..MaxMonths months
Modes ==
    {[monthly |-> FALSE, numMonths |-> 0]} \cup
    {[monthly |-> TRUE, numMonths |-> n] : n \in 1..MaxMonths}

\* top-level rows of a report
TopRow(header, group, summary, rows) ==
    MkRow("Section", group, FALSE, <<>>, TRUE, header, TRUE, summary, TRUE, rows)

TopPool ==
    { TopRow(<<<<"Income">>>>, "", <<LTotalIncome, V100>>,
             <<DataRow("Data", <<LSales, V100>>)>>),
      TopRow(<<EmptyStr>>, "Income", <<LTotalIncome, V12, V12>>,
             <<HeaderRow(<<EmptyStr>>, TRUE, <<LE17, V5, V5, V5>>, <<>>),
               DataRow("Data", <<LSales, V12>>)>>),
      TopRow(<<<<"Cost", "of", "Sales">>>>, "Income", <<EmptyStr, V7, V7>>,
             <<DataRow("", <<LClover, V7, V7>>)>>),
      TopRow(<<<<"Cost", "of", "Goods", "Sold">>>>, "", <<<<"Total", "COGS">>, V5, V5>>,
             <<DataRow("Data", <<LE17, V5>>), DataRow("Data", <<LRent, V5, V5>>)>>),
      TopRow(<<<<"Expenses">>>>, "", <<LTotalExpenses, V12, V12>>,
             <<HeaderRow(<<<<"Expense", "A">>>>, TRUE, <<<<"Total", "A">>, V5, V5>>,
                         <<DataRow("Data", <<LRent, V5, V5>>)>>)>>),
      TopRow(<<<<"Expenses">>>>, "", <<LTotalExpenses, V5, V5>>,
             <<HeaderRow(<<LE17>>, TRUE, <<<<"Total">>, V5, V5>>, KidsSales),
               HeaderRow(<<<<"Expense", "A">>>>, TRUE, <<<<"Total", "A">>, V5, V5>>,
                         <<DataRow("Data", <<LRent, V5, V5>>)>>)>>),
      TopRow(<<<<"EXPENSES">>>>, "", <<LTotalExpenses, V7, V7>>,
             <<DataRow("Data", <<LRent, V7, V7>>)>>),
      TopRow(<<<<"Other">>>>, "Expenses", <<<<"Total">>, V5, V5>>, <<>>),
      TopRow(<<EmptyStr>>, "", <<<<"Gross", "Profit">>, V12, V12>>, <<>>),
      TopRow(<<EmptyStr>>, "NetIncome", <<<<"Gross", "Profit">>, V7, V7>>, <<>>),
      TopRow(<<EmptyStr>>, "", <<<<"Net", "Income">>, V5, V5>>, <<>>),
      TopRow(<<<<"Other", "Income">>>>, "", <<<<"Total", "Other", "Income">>, V5, V5>>,
             <<DataRow("Data", <<LRent, V5, V5>>)>>),
      TopRow(<<<<"Rent">>>>, "", <<<<"Total", "Rent">>, V5, V5>>, KidsSales) }

\* the targetPercentages argument: absent, partial, complete, and one built from
\* a text that is no number
TargetArgs ==
    { Undefined,
      [costOfSales |-> Num(4000), payroll |-> Undefined, profit |-> Undefined],
      [costOfSales |-> Undefined, payroll |-> Num(2250), profit |-> Num(1000)],
      [costOfSales |-> Num(3500), payroll |-> Num(2000), profit |-> Num(1000)],
      [costOfSales |-> NaN, payroll |-> Num(2000), profit |-> Undefined] }

IdleFn == fn = "none" /\ fnArg = <<>> /\ fnOut = <<>>
IdleLayout ==
    /\ y = 0 /\ margin = 0 /\ pageCount = 0 /\ lastCall = [op |-> "none"]
    /\ sheet = [entry |-> "none"] /\ lpc = "idle" /\ events = <<>>
IdleRender ==
    /\ parsed = [mode |-> "none"] /\ targets = <<>> /\ incomeTotals = <<>>
    /\ rpc = "idle" /\ drawn = <<>>
IdleParse ==
    /\ report = [entry |-> "none"]
    /\ pc = "idle" /\ rowIdx = 0 /\ expIdx = 0 /\ sectionType = NoSection
    /\ stack = <<>> /\ keywordsFound = <<>> /\ items = <<>>
    /\ result = EmptyResult /\ origin = NoOrigin /\ log = <<>>

\* parseReportData(report) / parseReportDataMonthly(report, numMonths) is called
InitParse ==
    /\ \E m \in Modes, rows \in SeqsUpTo(TopPool, MaxRows) :
           report = [entry |-> "parse", monthly |-> m.monthly,
                     numMonths |-> m.numMonths, rows |-> rows]
    /\ pc = "row"
    /\ rowIdx = 1
    /\ expIdx = 0
    /\ sectionType = NoSection
    /\ stack = <<>>
    /\ keywordsFound = <<>>
    /\ items = <<>>
    /\ result = EmptyResult
    /\ origin = NoOrigin
    /\ log = <<>>

\* transformItems(rows, context) / transformMonthlyItems(rows, context) is called
\* with a context as the parsers create it
InitTransform ==
    /\ \E m \in Modes :
          \/ \E rows \in NonEmptySeqsUpTo(IncomePool, MaxTop) :
                /\ report = [entry |-> "transform", monthly |-> m.monthly,
                             numMonths |-> m.numMonths, rows |-> rows,
                             isIncomeSection |-> TRUE, expenseSectionHeader |-> EmptyStr]
                /\ stack = <<[rows |-> rows, idx |-> 1,
                              context |-> createTransformContext(EmptyStr, 0, TRUE, 1)]>>
          \/ \E rows \in NonEmptySeqsUpTo(ExpensePool, MaxTop - 1), h \in ExpenseHeaders :
                /\ report = [entry |-> "transform", monthly |-> m.monthly,
                             numMonths |-> m.numMonths, rows |-> rows,
                             isIncomeSection |-> FALSE, expenseSectionHeader |-> h]
                /\ stack = <<[rows |-> rows, idx |-> 1,
                              context |-> createTransformContext(h, 0, FALSE, 1)]>>
    /\ pc = "transform"
    /\ rowIdx = 0
    /\ expIdx = 0
    /\ sectionType = NoSection
    /\ keywordsFound = <<NoKeywords>>
    /\ items = <<>>
    /\ result = EmptyResult
    /\ origin = NoOrigin
    /\ log = <<>>

Init == (InitParse \/ InitTransform) /\ IdleFn /\ IdleLayout /\ IdleRender

Next ==
    \/ ParseSectionRow
    \/ ParseSummaryRow
    \/ ParseExpensesRow
    \/ ParseUnclassifiedRow
    \/ ParseExpenseSubSection
    \/ ParseExpenseOtherRow
    \/ ParseExpensesTotal
    \/ ParseReturn
    \/ TransformDataRow
    \/ TransformHeaderRow
    \/ TransformOtherRow
    \/ TransformReturn
    \/ TransformDone
    \/ \E targetPercentages \in TargetArgs : CallRender(targetPercentages)
    \/ Render
    \/ DrawIncome
    \/ DrawCostOfSales
    \/ DrawExpenses
    \/ DrawOtherIncome
    \/ DrawProfit

Spec == Init /\ [][Next]_vars

---------------------------------------------------------------------------
(* Reports for the renderers: the same calls, with the totals and values    *)
(* the percentages depend on.                                               *)

VAbc == <<"abc">>
VNeg == <<"-5.00">>
V50 == <<"50.00">>

LTotalPayroll == <<"Total", "Payroll", "Expenses">>
LNetIncome == <<"Net", "Income">>

RenderPool ==
    { TopRow(<<<<"Income">>>>, "", <<LTotalIncome, V50, V100, V100>>,
             <<DataRow("Data", <<LSales, V50, V100, V100>>),
               HeaderRow(<<LCatering>>, TRUE, <<<<"Total">>, V5, V12, V12>>,
                         <<DataRow("", <<LRent, V5, V12, V12>>)>>)>>),
      TopRow(<<<<"Income">>>>, "", <<LTotalIncome, VAbc>>,
             <<DataRow("Data", <<LSales, V5>>)>>),
      TopRow(<<<<"Income">>>>, "", <<LTotalIncome, V12, V12>>,
             <<DataRow("Data", <<LSales, V5, V7, V12>>)>>),
      TopRow(<<<<"Income">>>>, "", <<LTotalIncome, ZeroZero, ZeroZero, ZeroZero>>,
             <<DataRow("Data", <<LSales, V5, V5, V5>>)>>),
      TopRow(<<<<"Income">>>>, "", <<LTotalIncome, VNeg, VNeg, VNeg>>,
             <<DataRow("Data", <<LSales, V5, V5, V5>>)>>),
      TopRow(<<<<"Cost", "of", "Sales">>>>, "", <<<<"Total", "COGS">>, V5, V7, V12>>,
             <<DataRow("Data", <<LRent, VAbc, V5, V5>>),
               MkRow("Section", "", TRUE, <<LRent, V5>>, FALSE, <<>>, FALSE, <<>>, TRUE,
                     KidsSales)>>),
      TopRow(<<<<"Expenses">>>>, "", <<LTotalExpenses, V12, V12, V12>>,
             <<DataRow("Data", <<LRent, V7, V7>>),
               HeaderRow(<<<<"Payroll", "Expenses">>>>, TRUE,
                         <<LTotalPayroll, V5, V7, V12>>,
                         <<DataRow("Data", <<LWages, V5, V7, V12>>)>>)>>),
      TopRow(<<<<"Expenses">>>>, "", <<LTotalExpenses, V5, V7, V12>>,
             <<DataRow("Data", <<LRent, V7, V7>>)>>),
      TopRow(<<EmptyStr>>, "", <<LNetIncome, V5, V7, V12>>, <<>>),
      TopRow(<<<<"Rent">>>>, "", <<<<"Total", "Rent">>, V5, V5>>, KidsSales) }

\* generatePDFFromReportData is called: the parser runs first
InitRender ==
    /\ \E m \in Modes, rows \in NonEmptySeqsUpTo(RenderPool, MaxRows) :
           report = [entry |-> "parse", monthly |-> m.monthly,
                     numMonths |-> m.numMonths, rows |-> rows]
    /\ pc = "row"
    /\ rowIdx = 1
    /\ expIdx = 0
    /\ sectionType = NoSection
    /\ stack = <<>>
    /\ keywordsFound = <<>>
    /\ items = <<>>
    /\ result = EmptyResult
    /\ origin = NoOrigin
    /\ log = <<>>
    /\ IdleFn /\ IdleLayout /\ IdleRender

SpecRender == InitRender /\ [][Next]_vars

---------------------------------------------------------------------------
(* The pure functions applied to inputs of their own *)

ClassifyHeaders ==
    { EmptyStr, <<"Income">>, <<"INCOME">>, <<"Total", "Income">>,
      <<"Cost", "of", "Sales">>, <<"Cost", "of", "Goods", "Sold">>, <<"Expenses">>,
      <<"Other", "Income">>, <<"Other", "Expenses">>, <<"Rent">> }

ClassifyGroups ==
    {"", "Income", "COGS", "Expenses", "OtherIncome", "NetIncome", "GrossProfit"}

ClassifySummaries ==
    { EmptyStr, <<"Profit">>, <<"Net", "Income">>, <<"Gross", "Profit">>,
      <<"Total", "Gross", "Income">>, <<"Total", "Income">> }

ClassifyRows ==
    { TopRow(<<h>>, g, <<sl, V5>>, <<>>) :
          h \in ClassifyHeaders, g \in ClassifyGroups, sl \in ClassifySummaries }
    \cup { MkRow("Section", g, FALSE, <<>>, FALSE, <<>>, FALSE, <<>>, FALSE, <<>>) :
               g \in ClassifyGroups }

ValuePool == {EmptyStr, Zero, ZeroZero, V5, V7}

PreferredSummaries ==
    { [has |-> FALSE, cols |-> <<>>], [has |-> TRUE, cols |-> <<>>],
      [has |-> TRUE, cols |-> <<<<"Total">>>>] }
    \cup { [has |-> TRUE, cols |-> <<<<"Total">>, v>>] : v \in ValuePool }
    \cup { [has |-> TRUE, cols |-> <<<<"Total">>, v, w>>] : v, w \in ValuePool }

PreferredHeaders ==
    { [has |-> FALSE, cols |-> <<>>], [has |-> TRUE, cols |-> <<LRent>>] }
    \cup { [has |-> TRUE, cols |-> <<LRent, v>>] : v \in ValuePool }
    \cup { [has |-> TRUE, cols |-> <<LRent, v, V12>>] : v \in {EmptyStr, V7} }

PreferredRows ==
    { MkRow("Section", "", FALSE, <<>>, h.has, h.cols, sm.has, sm.cols, TRUE, <<>>) :
          h \in PreferredHeaders, sm \in PreferredSummaries }

ExcludeLabels ==
    { EmptyStr, LE17, <<"e17", "-", "Payroll", "Expenses">>, <<"Payroll", "Expenses">>,
      LOnline, <<"online", "subscription">>, <<"Online">>, <<"Subscription">>,
      LTravel, <<"Conference">>, LTravelConf, <<"Conference", "Travel">>, LRent }

ExcludeHeaders ==
    { EmptyStr, <<"Expense", "A">>, <<"Expense", "C">>, <<"expense", "c">>,
      <<"Fixed", "Expense", "C">>, <<"Expenses", "C">>, <<"Expense", "Catering">>,
      <<"Expense", "E">>, <<"Payroll", "Expense">> }

ApplyIdentifySectionType ==
    /\ \E row \in ClassifyRows :
          /\ fn' = "identifySectionType"
          /\ fnArg' = row
          /\ fnOut' = identifySectionType(row)
    /\ UNCHANGED <<parseVars, layoutVars, renderVars>>

ApplyGetPreferredValue ==
    /\ \E row \in PreferredRows :
          /\ fn' = "getPreferredValue"
          /\ fnArg' = row
          /\ fnOut' = getPreferredValue(row)
    /\ UNCHANGED <<parseVars, layoutVars, renderVars>>

ApplyShouldExcludeItem ==
    /\ \E label \in ExcludeLabels, header \in ExcludeHeaders :
          /\ fn' = "shouldExcludeItem"
          /\ fnArg' = [label |-> label, expenseSectionHeader |-> header]
          /\ fnOut' = shouldExcludeItem(label, header)
    /\ UNCHANGED <<parseVars, layoutVars, renderVars>>

\* searchForKeywords(rows) on the child lists of an Income section
ApplySearchForKeywords ==
    /\ \E rows \in SeqsUpTo(IncomePool, MaxRows) :
          /\ fn' = "searchForKeywords"
          /\ fnArg' = [rows |-> rows]
          /\ fnOut' = searchForKeywords(rows)
    /\ UNCHANGED <<parseVars, layoutVars, renderVars>>

\* transformItemsBase as a function of the row list: the items of the list and
\* the keywordsFound flags it leaves, the children of a Header row whose
\* handler descends transformed with the nested context
RECURSIVE transformItemsBase(_, _, _, _, _)

\* result.push(...) of the row's items, of its descendants' and of the rest's
joinItems(h, below, rest) ==
    [items |-> h.emit \o below.items \o rest.items, flags |-> rest.flags]

\* the rows after the first, with the flags the first row and its descendants left
transformRest(rows, context, monthly, numMonths, h, below) ==
    joinItems(h, below,
              transformItemsBase(Tail(rows), context, below.flags, monthly, numMonths))

\* the children of the first row, when its handler descends
transformBelow(rows, context, monthly, numMonths, h) ==
    transformRest(rows, context, monthly, numMonths, h,
                  IF h.recurse
                     THEN transformItemsBase(Head(rows).Rows,
                                             [context EXCEPT !.indentLevel = @ + 1],
                                             h.flags, monthly, numMonths)
                  ELSE [items |-> <<>>, flags |-> h.flags])

transformItemsBase(rows, context, flags, monthly, numMonths) ==
    IF rows = <<>> THEN [items |-> <<>>, flags |-> flags]
    ELSE transformBelow(
             rows, context, monthly, numMonths,
             IF isDataRow(Head(rows))
                THEN IF monthly
                        THEN transformMonthlyDataRowItem(Head(rows), context, flags, numMonths)
                     ELSE transformDataRowItem(Head(rows), context, flags)
             ELSE IF isHeaderRow(Head(rows))
                THEN transformHeaderRowItemsBase(Head(rows), context, flags, monthly, numMonths)
             ELSE Handled(<<>>, FALSE, flags))

\* rows of a period report, every ColData array of the shape [label, v]
PeriodShapedPool ==
    { DataRow("Data", <<LSales, V5>>),
      DataRow("Data", <<LClover, V7>>),
      DataRow("Data", <<LRent, EmptyStr>>),
      HeaderRow(<<EmptyStr, EmptyStr>>, TRUE, <<LTotalIncome, V5>>, <<>>),
      HeaderRow(<<LCatering, EmptyStr>>, TRUE, <<<<"Total">>, V12>>,
                <<DataRow("Data", <<LClover, V5>>), DataRow("Data", <<LSales, V7>>)>>),
      HeaderRow(<<LPayroll, V7>>, TRUE, <<<<"Total">>, Zero>>,
                <<DataRow("Data", <<LSales, V5>>)>>),
      HeaderRow(<<LRent, V7>>, TRUE, <<<<"Total", "Rent">>, V12>>,
                <<DataRow("Data", <<LSales, V5>>)>>) }

\* [label, v] as the monthly report with one month has it: [label, v, v]
MonthlyShapedCols(cols) == IF Len(cols) = 2 THEN Append(cols, cols[2]) ELSE cols

RECURSIVE MonthlyShapedRows(_)
MonthlyShapedRow(row) ==
    [row EXCEPT !.ColData = MonthlyShapedCols(@), !.Header = MonthlyShapedCols(@),
                !.Summary = MonthlyShapedCols(@), !.Rows = MonthlyShapedRows(@)]
MonthlyShapedRows(rows) == [i \in 1..Len(rows) |-> MonthlyShapedRow(rows[i])]

\* transformItems(rows, context) on a period tree and transformMonthlyItems on
\* the same tree in the monthly shape, numMonths = 1
ApplyTransformBothModes ==
    /\ fn = "none"
    /\ \E rows \in NonEmptySeqsUpTo(PeriodShapedPool, MaxRows),
          h \in {EmptyStr, <<"Expense", "A">>, <<"Payroll", "Expense">>},
          isIncomeSection \in BOOLEAN :
          /\ isIncomeSection => h = EmptyStr
          /\ fn' = "transformBothModes"
          /\ fnArg' = [rows |-> rows, expenseSectionHeader |-> h,
                       isIncomeSection |-> isIncomeSection]
          /\ fnOut' =
               [period |-> transformItemsBase(
                               rows, createTransformContext(h, 0, isIncomeSection, 1),
                               NoKeywords, FALSE, 0).items,
                monthly |-> transformItemsBase(
                               MonthlyShapedRows(rows),
                               createTransformContext(h, 0, isIncomeSection, 1),
                               NoKeywords, TRUE, 1).items]
    /\ UNCHANGED <<parseVars, layoutVars, renderVars>>

PeriodMargin == 20      \* PERIOD_MODE_CONSTANTS.margin
MonthlyMargin == 12     \* MONTHLY_MODE_CONSTANTS.margin

\* utils/filters.ts: extractMonthsFromReportData.  A column is "month" when
\* its MetaData holds a StartDate of the form YYYY-MM-DD and an EndDate,
\* "undated" when it holds both names but no such date, "plain" otherwise.
extractMonthsFromReportData(reportData) ==
    IF reportData.SummarizeColumnsBy = "Month"
       THEN SelectSeq(reportData.Columns, LAMBDA col : col = "month")
    ELSE IF reportData.legacyMonthlyMode /\ Len(reportData.legacyMonths) > 0
       THEN reportData.legacyMonths
    ELSE <<>>

isMonthlyMode(reportData) ==
    IF reportData.SummarizeColumnsBy = "Month" THEN TRUE
    ELSE reportData.legacyMonthlyMode /\ Len(reportData.legacyMonths) > 0

\* index.ts: generatePDFFromReportData, the choices it makes by the mode: the
\* title and the margin of the renderer configuration, the parser and the
\* rendering strategy
generatePDFFromReportData(reportData) ==
    LET months == extractMonthsFromReportData(reportData)
        monthlyMode == isMonthlyMode(reportData) \/ Len(months) > 0
    IN  [title |-> IF monthlyMode THEN "Monthly P&L Report" ELSE "Profit & Loss Report",
         headerMargin |-> PeriodMargin,
         margin |-> IF monthlyMode THEN MonthlyMargin ELSE PeriodMargin,
         parser |-> IF monthlyMode /\ Len(months) > 0
                       THEN "parseReportDataMonthly" ELSE "parseReportData",
         numMonths |-> IF monthlyMode /\ Len(months) > 0 THEN Len(months) ELSE 0,
         strategy |-> IF monthlyMode /\ Len(months) > 0
                         THEN "MonthlyModeRenderer" ELSE "PeriodModeRenderer"]

\* report documents by what decides the mode: Header.SummarizeColumnsBy, the
\* columns, and the legacy _monthlyMode / _months fields
ReportDatas ==
    [SummarizeColumnsBy : {"Month", "Total", ""},
     Columns : SeqsUpTo({"plain", "month", "undated"}, MaxMonths + 1),
     legacyMonthlyMode : BOOLEAN,
     legacyMonths : SeqsUpTo({"month"}, MaxMonths)]

ApplyGeneratePDFFromReportData ==
    /\ fn = "none"
    /\ \E reportData \in ReportDatas :
          /\ fn' = "generatePDFFromReportData"
          /\ fnArg' = reportData
          /\ fnOut' = generatePDFFromReportData(reportData)
    /\ UNCHANGED <<parseVars, layoutVars, renderVars>>

InitFn == IdleFn /\ IdleParse /\ IdleLayout /\ IdleRender

NextFn ==
    \/ ApplyIdentifySectionType
    \/ ApplyGetPreferredValue
    \/ ApplyShouldExcludeItem
    \/ ApplySearchForKeywords
    \/ ApplyTransformBothModes
    \/ ApplyGeneratePDFFromReportData

SpecFn == InitFn /\ [][NextFn]_vars

---------------------------------------------------------------------------
(* renderers/BaseRenderer.ts: PositionTracker *)

\* a variant that also breaks when the space fits exactly
checkPageBreak_AtEquality(yv, requiredSpace, m, pages) ==
    IF yv + requiredSpace >= PageHeight - m
       THEN [y |-> m, pages |-> pages + 1, ret |-> TRUE]
    ELSE [y |-> yv, pages |-> pages, ret |-> FALSE]

\* checkPageBreak(doc, requiredSpace) on a cursor at yv.  [y, pages, ret]
checkPageBreak(yv, requiredSpace, m, pages) ==
    IF yv + requiredSpace > PageHeight - m
       THEN [y |-> m, pages |-> pages + 1, ret |-> TRUE]
    ELSE [y |-> yv, pages |-> pages, ret |-> FALSE]

Call(op, req, ret) ==
    [op |-> op, req |-> req, yBefore |-> y, pagesBefore |-> pageCount, ret |-> ret]

\* new PositionTracker(initialY, pageHeight, margin) on a one-page document; the
\* cursor starts at the period margin whatever the mode
InitLayout ==
    /\ IdleFn /\ IdleParse /\ IdleRender
    /\ margin \in {PeriodMargin, MonthlyMargin}
    /\ y = PeriodMargin
    /\ pageCount = 1
    /\ lastCall = [op |-> "none"]
    /\ sheet = [entry |-> "none"] /\ lpc = "idle" /\ events = <<>>

MoveDown ==
    /\ \E amount \in 1..MaxStep :
          /\ y + amount <= PageHeight
          /\ y' = y + amount
          /\ lastCall' = Call("moveDown", amount, FALSE)
    /\ UNCHANGED <<margin, pageCount, sheet, lpc, events>>
    /\ UNCHANGED <<fnVars, parseVars, renderVars>>

CheckPageBreak ==
    /\ pageCount < MaxPages
    /\ \E requiredSpace \in 0..MaxStep :
          LET r == checkPageBreak(y, requiredSpace, margin, pageCount)
          IN  /\ y' = r.y
              /\ pageCount' = r.pages
              /\ lastCall' = Call("checkPageBreak", requiredSpace, r.ret)
    /\ UNCHANGED <<margin, sheet, lpc, events>>
    /\ UNCHANGED <<fnVars, parseVars, renderVars>>

NextLayout == MoveDown \/ CheckPageBreak

SpecLayout == InitLayout /\ [][NextLayout]_vars

---------------------------------------------------------------------------
(* renderers/PeriodModeRenderer.ts and MonthlyModeRenderer.ts: the page      *)
(* layout of the two strategies.  The pen is [y, pages, ev]: the cursor of  *)
(* the PositionTracker, the page count, and the calls made on the renderer  *)
(* so far.  A label is the number of lines splitTextToSize gives it.        *)

PeriodLineHeight == 7         \* PERIOD_MODE_CONSTANTS.lineHeight
PeriodLineSpacing == 5        \* PERIOD_MODE_CONSTANTS.lineSpacing
PeriodSectionSpacing == 8     \* PERIOD_MODE_CONSTANTS.sectionSpacing
MonthlyLineHeight == 6        \* MONTHLY_MODE_CONSTANTS.lineHeight
MonthlyLineSpacing == 4       \* MONTHLY_MODE_CONSTANTS.lineSpacing
MonthlySectionSpacing == 6    \* MONTHLY_MODE_CONSTANTS.sectionSpacing

MonthlyStrategy == sheet.mode.monthly
lineHeight == IF MonthlyStrategy THEN MonthlyLineHeight ELSE PeriodLineHeight
lineSpacing == IF MonthlyStrategy THEN MonthlyLineSpacing ELSE PeriodLineSpacing
sectionSpacing == IF MonthlyStrategy THEN MonthlySectionSpacing ELSE PeriodSectionSpacing

\* a call on the renderer: its name, what it draws, the section and the item
\* it belongs to, and the y it draws at
Ev(op, tag, sec, item, yv) == [op |-> op, tag |-> tag, sec |-> sec, item |-> item, y |-> yv]

Emit(p, evs) == [p EXCEPT !.ev = @ \o evs]

\* renderer.checkPageBreak(requiredSpace)
penCheckPageBreak(p, requiredSpace, sec) ==
    [y |-> checkPageBreak(p.y, requiredSpace, margin, p.pages).y,
     pages |-> checkPageBreak(p.y, requiredSpace, margin, p.pages).pages,
     ev |-> Append(p.ev,
                   Ev("checkPageBreak",
                      IF checkPageBreak(p.y, requiredSpace, margin, p.pages).ret
                         THEN "true" ELSE "false",
                      sec, 0, p.y))]

\* the checkPageBreak call just made returned true
Broke(p) == p.ev[Len(p.ev)].op = "checkPageBreak" /\ p.ev[Len(p.ev)].tag = "true"

setFontSize(p, sec) == Emit(p, <<Ev("setFontSize", "", sec, 0, p.y)>>)
setFont(p, sec) == Emit(p, <<Ev("setFont", "", sec, 0, p.y)>>)
\* renderer.setFontSize(..); renderer.setFont('helvetica', ..)
setFonts(p, sec) == setFont(setFontSize(p, sec), sec)
drawText(p, tag, sec, item, yv) == Emit(p, <<Ev("text", tag, sec, item, yv)>>)
moveDown(p, amount) == [p EXCEPT !.y = @ + amount]
setY(p, yv) == [p EXCEPT !.y = yv]

\* n calls of drawText at the same place
drawTexts(p, n, tag, sec, item, yv) ==
    Emit(p, [k \in 1..n |-> Ev("text", tag, sec, item, yv)])

\* drawLabelLines / drawTotalLabelLines: line k at startY + k * lineSpacing
drawLabelLines(p, n, tag, sec, item, startY) ==
    Emit(p, [k \in 1..n |-> Ev("text", tag, sec, item, startY + (k - 1) * lineSpacing)])

calculateRowHeight(n) ==
    IF n = 1 THEN lineHeight ELSE (n - 1) * lineSpacing + lineHeight

\* a variant that leaves the font as the page break found it
resetFontsAfterBreak_Never(p, sec) == p

\* if (renderer.checkPageBreak(..)) { setFontSize(..); setFont(..) }
resetFontsAfterBreak(p, sec) == IF Broke(p) THEN setFonts(p, sec) ELSE p

\* drawTargetPercentage: no-op unless the target is a number
placeTargetPercentage(p, defined, sec, yv) ==
    IF ~defined \/ ~sheet.target THEN p
    ELSE setFont(drawText(setFonts(p, sec), "target", sec, 0, yv), sec)

\* period mode: the value, then the percentage in its own size when there is
\* one; styleAfter is the setFont the expense item loop adds
periodValues(p, vtag, ptag, sec, item, startY, styleAfter) ==
    IF ~sheet.percent THEN drawText(p, vtag, sec, item, startY)
    ELSE IF styleAfter
       THEN setFonts(drawText(setFontSize(drawText(p, vtag, sec, item, startY), sec),
                              ptag, sec, item, startY), sec)
    ELSE setFontSize(drawText(setFontSize(drawText(p, vtag, sec, item, startY), sec),
                              ptag, sec, item, startY), sec)

\* monthly mode, drawItemValues / drawTotalValues: per column setFontSize and
\* the value, then setFontSize and the percentage when there is one
monthlyValues(p, vtag, ptag, sec, item, startY) ==
    LET cell == IF sheet.percent
                   THEN <<Ev("setFontSize", "", sec, 0, p.y), Ev("text", vtag, sec, item, startY),
                          Ev("setFontSize", "", sec, 0, p.y), Ev("text", ptag, sec, item, startY)>>
                ELSE <<Ev("setFontSize", "", sec, 0, p.y), Ev("text", vtag, sec, item, startY)>>
        numColumns == IF sheet.mode.numMonths > 1 THEN sheet.mode.numMonths + 1 ELSE 1
    IN  Emit(p, [k \in 1..(numColumns * Len(cell)) |-> cell[((k - 1) % Len(cell)) + 1]])

placeValues(p, vtag, ptag, sec, item, startY, styleAfter) ==
    IF MonthlyStrategy THEN monthlyValues(p, vtag, ptag, sec, item, startY)
    ELSE periodValues(p, vtag, ptag, sec, item, startY, styleAfter)

\* drawColumnHeaders (period); drawMonthColumnHeaders and drawSubHeaders (monthly)
placeColumnHeaders(p, sec) ==
    IF MonthlyStrategy
       THEN LET months == IF sheet.mode.numMonths > 1 THEN sheet.mode.numMonths ELSE 0
                labels == moveDown(drawTexts(setFonts(p, sec), months + 1, "columns", sec, 0,
                                             p.y), 3)
            IN  moveDown(drawTexts(setFontSize(labels, sec), 2 * months + 2, "columns", sec, 0,
                                   labels.y), 4)
    ELSE moveDown(drawTexts(setFonts(p, sec), 2, "columns", sec, 0, p.y), 6)

\* drawSection up to the items (period), drawSectionHeader (monthly)
placeSectionHeader(p, sec) ==
    IF MonthlyStrategy
       THEN LET header == drawText(setFonts(penCheckPageBreak(p, 30, sec), sec),
                                   "header", sec, 0, penCheckPageBreak(p, 30, sec).y)
            IN  moveDown(placeColumnHeaders(moveDown(header, 6 + 4), sec), 3)
    ELSE LET broke == resetFontsAfterBreak(penCheckPageBreak(p, 30, sec), sec)
             header == drawText(setFonts(broke, sec), "header", sec, 0, broke.y)
         IN  moveDown(placeColumnHeaders(moveDown(header, 8 + 5), sec), 3 + 3)

\* the lines drawn for an item's label: in monthly mode a last line that is
\* too wide is split again and its pieces go on below it
DrawnLines(item) ==
    IF MonthlyStrategy /\ item.emergency > 0 THEN item.lines - 1 + item.emergency
    ELSE item.lines

\* one turn of the item loop; expense is the loop of drawExpenseSection
placeItem(p, item, idx, sec, expense) ==
    LET broke == resetFontsAfterBreak(penCheckPageBreak(p, lineHeight, sec), sec)
        labels == drawLabelLines(broke, DrawnLines(item), "label", sec, idx, broke.y)
        font == IF ~MonthlyStrategy /\ expense THEN setFonts(labels, sec) ELSE labels
        values == placeValues(font, "value", "percent", sec, idx, broke.y,
                              ~MonthlyStrategy /\ expense)
        after == IF MonthlyStrategy THEN setFonts(values, sec) ELSE values
    IN  setY(after, broke.y + calculateRowHeight(item.lines))

RECURSIVE placeItemsFrom(_, _, _, _, _)
placeItemsFrom(p, its, idx, sec, expense) ==
    IF idx > Len(its) THEN p
    ELSE placeItemsFrom(placeItem(p, its[idx], idx, sec, expense), its, idx + 1, sec,
                        expense)

\* drawSectionItems, and the item loop of drawExpenseSection
placeSectionItems(p, its, sec, expense) ==
    placeItemsFrom(setFonts(p, sec), its, 1, sec, expense)

\* a total line: page-break check, moveDown, fonts, the label lines, the
\* values, the target annotation, and the cursor below the row
placeTotalLine(p, n, sec, requiredSpace, down, targetDefined, spacing) ==
    LET start == setFonts(moveDown(penCheckPageBreak(p, requiredSpace, sec), down), sec)
        labels == drawLabelLines(start, n, "total", sec, 0, start.y)
        values == placeValues(labels, "totalValue", "totalPercent", sec, 0, start.y, FALSE)
        target == placeTargetPercentage(values, targetDefined, sec, start.y + 3)
    IN  setY(target, start.y + calculateRowHeight(n) + spacing)

\* drawSectionTotal: nothing without a total
placeSectionTotal(p, section, sec, targetDefined) ==
    IF section.total = 0 THEN p
    ELSE placeTotalLine(p, section.total, sec,
                        lineHeight + (IF MonthlyStrategy THEN 2 ELSE 3),
                        IF MonthlyStrategy THEN 2 ELSE 3, targetDefined, sectionSpacing)

\* a variant that draws the total above the items
placeSection_TotalFirst(p, section, sec, targetDefined) ==
    IF section.isNull THEN p
    ELSE placeSectionItems(
             placeSectionTotal(placeSectionHeader(p, sec), section, sec, targetDefined),
             section.items, sec, FALSE)

\* drawSection: header, column headers, items, total
placeSection(p, section, sec, targetDefined) ==
    IF section.isNull THEN p
    ELSE placeSectionTotal(
             placeSectionItems(placeSectionHeader(p, sec), section.items, sec, FALSE),
             section, sec, targetDefined)

\* drawExpenseSectionTotal: the payroll target, then the line after the sub-section
placeExpenseSectionTotal(p, es, sec) ==
    moveDown(placeTotalLine(p, es.total, sec, lineHeight + 3,
                            IF MonthlyStrategy THEN 2 ELSE 3, es.payroll, 2), 2 + 3)

\* drawExpenseSection for the sub-section at 0-based index sectionIndex
placeExpenseSection(p, es, sectionIndex, sec) ==
    LET start == IF sectionIndex > 0 THEN moveDown(penCheckPageBreak(p, 20, sec), 3)
                 ELSE penCheckPageBreak(p, 20, sec)
        header == moveDown(drawText(setFonts(start, sec), "subHeader", sec, 0, start.y),
                           IF MonthlyStrategy THEN 6 ELSE 7)
        its == IF es.fixed THEN header
               ELSE placeSectionItems(header, es.items, sec, TRUE)
    IN  IF es.total = 0 THEN its ELSE placeExpenseSectionTotal(its, es, sec)

RECURSIVE placeExpenseSectionsFrom(_, _, _, _)
placeExpenseSectionsFrom(p, sections, idx, sec) ==
    IF idx > Len(sections) THEN p
    ELSE placeExpenseSectionsFrom(placeExpenseSection(p, sections[idx], idx - 1, sec),
                                  sections, idx + 1, sec)

\* BaseRenderer.drawExpensesHeader
placeExpensesHeader(p, sec) ==
    moveDown(drawText(setFonts(penCheckPageBreak(p, 30, sec), sec), "header", sec, 0,
                      penCheckPageBreak(p, 30, sec).y), 6 + 4)

\* drawExpensesTotal
placeExpensesTotal(p, n, sec) ==
    placeTotalLine(p, n, sec, lineHeight + 5, IF MonthlyStrategy THEN 2 ELSE 5, FALSE,
                   sectionSpacing)

\* drawExpenses
placeExpenses(p, expenses, sec) ==
    IF expenses.sections = <<>> /\ expenses.total = 0 THEN p
    ELSE
      LET header == IF MonthlyStrategy THEN placeExpensesHeader(p, sec)
                    ELSE moveDown(placeExpensesHeader(p, sec), 1)
          columns == moveDown(placeColumnHeaders(header, sec), 3)
          sections == placeExpenseSectionsFrom(columns, expenses.sections, 1, sec)
      IN  IF expenses.total = 0 THEN sections
          ELSE placeExpensesTotal(sections, expenses.total, sec)

\* drawProfit
placeProfit(p, sec) ==
    IF ~sheet.profit THEN p
    ELSE IF MonthlyStrategy
       THEN LET start == setFonts(moveDown(penCheckPageBreak(p, 20, sec), 2), sec)
                label == drawText(start, "total", sec, 0, start.y)
            IN  placeTargetPercentage(
                    monthlyValues(label, "totalValue", "totalPercent", sec, 0, start.y),
                    TRUE, sec, start.y + 3)
    ELSE LET start == setFonts(moveDown(penCheckPageBreak(p, 20, sec), 5), sec)
             columns == moveDown(drawTexts(start, 2, "columns", sec, 0, start.y), 6)
             label == drawText(setFonts(columns, sec), "total", sec, 0, columns.y)
         IN  placeTargetPercentage(
                 periodValues(label, "totalValue", "totalPercent", sec, 0, columns.y, FALSE),
                 TRUE, sec, columns.y + 3)

\* shapes of the parsed report: an item is the number of lines of its label
\* (and of the pieces of an overflowing last line); a total is the number of
\* lines of its label, 0 when there is none
ItemShapes ==
    {[lines |-> n, emergency |-> 0] : n \in 1..MaxLines}
    \cup {[lines |-> 1, emergency |-> 2]}

SectionShape(its, total) == [isNull |-> FALSE, items |-> its, total |-> total]

OneLine == [lines |-> 1, emergency |-> 0]

IncomeShapes ==
    {Null} \cup {SectionShape(its, t) : its \in SeqsUpTo(ItemShapes, MaxItems), t \in 0..1}

SmallShapes == {Null, SectionShape(<<OneLine>>, 1)}

ExpenseShapes ==
    { [sections |-> <<>>, total |-> 0],
      [sections |-> <<[items |-> <<OneLine>>, total |-> 1, fixed |-> FALSE,
                       payroll |-> TRUE]>>, total |-> 1],
      [sections |-> <<[items |-> <<OneLine, [lines |-> 2, emergency |-> 0]>>, total |-> 2,
                       fixed |-> FALSE, payroll |-> FALSE],
                      [items |-> <<OneLine>>, total |-> 0, fixed |-> TRUE,
                       payroll |-> FALSE]>>, total |-> 0] }

\* the incomeTotal the percentages divide by is not zero
PercentShown(income) == ~income.isNull /\ income.total > 0

\* strategy.render(pdfRenderer, parsed, resolvedTargets) is called: the
\* strategy and the configured margin as generatePDFFromReportData pairs
\* them, the cursor where renderHeader left it
InitDraw ==
    /\ IdleFn /\ IdleParse /\ IdleRender
    /\ \E m \in Modes, income \in IncomeShapes, costOfSales \in SmallShapes,
          expenses \in ExpenseShapes, otherIncome \in SmallShapes,
          profit \in BOOLEAN, target \in BOOLEAN :
          sheet = [entry |-> "render", mode |-> m, income |-> income,
                   costOfSales |-> costOfSales, expenses |-> expenses,
                   otherIncome |-> otherIncome, profit |-> profit,
                   percent |-> PercentShown(income), target |-> target]
    /\ margin \in {PeriodMargin, MonthlyMargin}
    /\ sheet.mode.monthly => margin = MonthlyMargin
    /\ y = PeriodMargin + 10 + 12 + 5
    /\ pageCount = 1
    /\ lastCall = [op |-> "none"]
    /\ lpc = "income"
    /\ events = <<>>

Pen == [y |-> y, pages |-> pageCount, ev |-> events]

\* the pen after a draw call, and the call render makes next
Put(p, next) ==
    /\ y' = p.y
    /\ pageCount' = p.pages
    /\ events' = p.ev
    /\ lpc' = next
    /\ UNCHANGED <<margin, lastCall, sheet>>
    /\ UNCHANGED <<fnVars, parseVars, renderVars>>

\* this.drawSection(renderer, parsedData.income)
PlaceIncome ==
    /\ lpc = "income"
    /\ Put(placeSection(Pen, sheet.income, "income", FALSE), "costOfSales")

\* this.drawSection(renderer, parsedData.costOfSales, true, targetPercentages?.costOfSales)
PlaceCostOfSales ==
    /\ lpc = "costOfSales"
    /\ Put(placeSection(Pen, sheet.costOfSales, "costOfSales", TRUE), "expenses")

\* this.drawExpenses(renderer, parsedData.expenses, targetPercentages)
PlaceExpenses ==
    /\ lpc = "expenses"
    /\ Put(placeExpenses(Pen, sheet.expenses, "expenses"), "otherIncome")

\* this.drawSection(renderer, parsedData.otherIncome)
PlaceOtherIncome ==
    /\ lpc = "otherIncome"
    /\ Put(placeSection(Pen, sheet.otherIncome, "otherIncome", FALSE), "profit")

\* this.drawProfit(renderer, parsedData.profit, targetPercentages)
PlaceProfit ==
    /\ lpc = "profit"
    /\ Put(placeProfit(Pen, "profit"), "done")

NextDraw ==
    \/ PlaceIncome
    \/ PlaceCostOfSales
    \/ PlaceExpenses
    \/ PlaceOtherIncome
    \/ PlaceProfit

SpecDraw == InitDraw /\ [][NextDraw]_vars

---------------------------------------------------------------------------
(* Properties of the parsers and the transformers (Spec) *)

ParseCall == report.entry = "parse"
Returned == ParseCall /\ pc = "done"

\* the top-level rows of the report that classify to section type t
RowsOfType(t) ==
    {i \in 1..Len(report.rows) : identifySectionType(report.rows[i]) = t}

LastOfType(t) ==
    IF RowsOfType(t) = {} THEN 0
    ELSE CHOOSE i \in RowsOfType(t) : \A j \in RowsOfType(t) : j <= i

Range(seq) == {seq[i] : i \in 1..Len(seq)}

SectionItems(section) == IF section.isNull THEN {} ELSE Range(section.items)

\* every item of the list being built and of the sections stored so far
ParsedItems ==
    Range(items) \cup SectionItems(result.income) \cup SectionItems(result.costOfSales)
    \cup SectionItems(result.otherIncome)
    \cup UNION {Range(result.expenseSections[k].items) :
                    k \in 1..Len(result.expenseSections)}

\* the transform under way (or just over) is that of an Income section
IncomeTransform ==
    IF ParseCall THEN sectionType = "INCOME"
    ELSE report.entry = "transform" /\ report.isIncomeSection

Flags == {"foundClover", "foundCourier"}

\* C1: parseReportData and parseReportDataMonthly return without throwing for
\* every report, one whose Expenses row has sub-sections included, and every
\* section no top-level row classifies to is null in the result (expenses: an
\* empty section list and a null total).
C1_ParseNeverThrows ==
    ParseCall =>
       /\ pc # "threw"
       /\ pc = "done" =>
             /\ RowsOfType("INCOME") = {} => result.income = Null
             /\ RowsOfType("COST_OF_SALES") = {} => result.costOfSales = Null
             /\ RowsOfType("OTHER_INCOME") = {} => result.otherIncome = Null
             /\ RowsOfType("GROSS_PROFIT") = {} => result.grossProfit = Null
             /\ RowsOfType("PROFIT") = {} => result.profit = Null
             /\ RowsOfType("EXPENSES") = {} =>
                    result.expenseSections = <<>> /\ result.expensesTotal = Null

\* C2: when several top-level rows classify to the same SectionType, the
\* returned model holds only what the last such row yields, for each of the
\* six types: every stored section, sub-section and total was assigned from
\* the last row of its type.
C2_LastRowWins ==
    Returned =>
       /\ origin.income = LastOfType("INCOME")
       /\ origin.costOfSales = LastOfType("COST_OF_SALES")
       /\ origin.otherIncome = LastOfType("OTHER_INCOME")
       /\ origin.grossProfit = LastOfType("GROSS_PROFIT")
       /\ origin.profit = LastOfType("PROFIT")
       /\ \A k \in 1..Len(origin.expenseSections) :
              origin.expenseSections[k] = LastOfType("EXPENSES")
       /\ origin.expensesTotal # 0 => origin.expensesTotal = LastOfType("EXPENSES")

\* C5: during one transform of an Income section no flag of keywordsFound goes
\* from true to false, and a flag set while any row was processed (a
\* descendant row too) is set when every later row of the traversal is
\* processed.
C5_FlagsNeverReset ==
    IncomeTransform =>
       \A j \in 1..Len(log), f \in Flags :
          /\ log[j].flagsBefore[f] => log[j].flagsAfter[f]
          /\ \A i \in 1..(j - 1) : log[i].flagsAfter[f] => log[j].flagsBefore[f]

\* a descendant row has set foundClover and a later row of the top list saw it
C5_Witness ==
    /\ IncomeTransform
    /\ \E j \in 1..Len(log), i \in 1..Len(log) :
          /\ i < j
          /\ log[i].depth > 0
          /\ ~log[i].flagsBefore.foundClover
          /\ log[i].flagsAfter.foundClover
          /\ log[j].depth = 0
          /\ log[j].flagsBefore.foundClover

\* every label below the rows of a child list
RECURSIVE DescendantLabels(_)
DescendantLabels(rows) ==
    UNION { (IF rows[i].hasColData THEN {ColValue(rows[i].ColData, 0)} ELSE {})
            \cup (IF rows[i].hasHeader THEN {ColValue(rows[i].Header, 0)} ELSE {})
            \cup (IF rows[i].hasRows THEN DescendantLabels(rows[i].Rows) ELSE {}) :
            i \in 1..Len(rows) }

HasKeyword(k, label) ==
    IF k = "foundClover" THEN containsKeyword(label).hasClover
    ELSE containsKeyword(label).hasCourier

\* an Income child list of three Header rows: a descendant label of the first
\* holds keyword A, the label of the second holds keyword B
KeywordBucketingCase ==
    /\ report.entry = "transform"
    /\ report.isIncomeSection
    /\ Len(report.rows) >= 3
    /\ \A i \in 1..3 : isHeaderRow(report.rows[i]) /\ ~isDataRow(report.rows[i])
    /\ \E a, b \in Flags :
          /\ a # b
          /\ \E l \in DescendantLabels(report.rows[1].Rows) : HasKeyword(a, l)
          /\ HasKeyword(b, getHeaderLabel(report.rows[2]))

\* C6: in such an Income list keywordsFound is {true, true} once the first two
\* rows are processed, and the third row gives at most one summary-only line
\* and none of its children is expanded.
C6_ThirdRowCollapses ==
    KeywordBucketingCase =>
       /\ (pc = "transform" /\ Len(stack) = 1 /\ stack[1].idx = 3) =>
              keywordsFound[1] = [foundClover |-> TRUE, foundCourier |-> TRUE]
       /\ \A j \in 1..Len(log) :
              (log[j].depth = 0 /\ Cardinality({i \in 1..j : log[i].depth = 0}) = 3) =>
                  log[j].emitted <= 1 /\ ~log[j].recurse

\* C7: in period and in monthly mode no item of a parsed section has a label
\* that matches the payroll-duplicate pattern (E17 Payroll Expenses), whether
\* the label came from a Data row, a Header label or a Summary-label fallback.
C7_NoPayrollDuplicateItem ==
    \A it \in ParsedItems : ~isE17PayrollExpenses(it.label)

\* C9: every MonthlyItem of a monthly parse has exactly numMonths values, for
\* ColData arrays of fewer than numMonths + 2 columns too.
C9_ValuesHaveNumMonths ==
    Monthly => \A it \in ParsedItems : Len(it.values) = NumMonths

---------------------------------------------------------------------------
(* Properties of the pure functions (SpecFn) *)

SectionRules ==
    <<"INCOME", "COST_OF_SALES", "EXPENSES", "OTHER_INCOME", "PROFIT", "GROSS_PROFIT">>

\* the condition of the k-th classification rule on a row
RuleHolds(k, row) ==
    LET upperHeader == toUpperCase(getHeaderLabel(row))
        upperSummary == toUpperCase(getSummaryLabel(row))
    IN  CASE k = 1 -> upperHeader = <<"INCOME">> \/ row.group = "Income"
          [] k = 2 -> \/ includes(upperHeader, <<"COST", "OF", "GOODS", "SOLD">>)
                      \/ includes(upperHeader, <<"COST", "OF", "SALES">>)
                      \/ row.group = "COGS"
          [] k = 3 -> upperHeader = <<"EXPENSES">> \/ row.group = "Expenses"
          [] k = 4 -> includes(upperHeader, <<"OTHER", "INCOME">>)
                      \/ row.group = "OtherIncome"
          [] k = 5 -> \/ upperSummary = <<"PROFIT">>
                      \/ upperSummary = <<"NET", "INCOME">>
                      \/ row.group = "NetIncome"
          [] k = 6 -> \/ includes(upperSummary, <<"GROSS", "PROFIT">>)
                      \/ includes(upperSummary, <<"GROSS", "INCOME">>)

FirstRule(row) ==
    IF \E k \in 1..6 : RuleHolds(k, row)
       THEN SectionRules[CHOOSE k \in 1..6 :
                            RuleHolds(k, row) /\ \A j \in 1..(k - 1) : ~RuleHolds(j, row)]
    ELSE "null"

\* C3: identifySectionType returns the type of the first rule that holds, in
\* the order INCOME, COST_OF_SALES, EXPENSES, OTHER_INCOME, PROFIT,
\* GROSS_PROFIT, and null when none holds; a "Cost of Sales" header with group
\* Income is INCOME, a "Gross Profit" summary with group NetIncome is PROFIT.
C3_FirstRuleWins ==
    fn = "identifySectionType" =>
       /\ fnOut = FirstRule(fnArg)
       /\ (getHeaderLabel(fnArg) = <<"Cost", "of", "Sales">> /\ fnArg.group = "Income")
             => fnOut = "INCOME"
       /\ (/\ getHeaderLabel(fnArg) = EmptyStr
           /\ getSummaryLabel(fnArg) = <<"Gross", "Profit">>
           /\ fnArg.group = "NetIncome") => fnOut = "PROFIT"

\* a row on which both the PROFIT and the GROSS_PROFIT rule hold
C3_Witness ==
    /\ fn = "identifySectionType"
    /\ getHeaderLabel(fnArg) = EmptyStr
    /\ getSummaryLabel(fnArg) = <<"Gross", "Profit">>
    /\ fnArg.group = "NetIncome"
    /\ fnOut = "PROFIT"

\* non-empty and neither "0" nor "0.00"
Valid(value) == value # EmptyStr /\ value # <<"0">> /\ value # <<"0.00">>

\* C4: getPreferredValue returns the Summary value when it is valid, else the
\* Header inline value when it is valid, else "0.00"; the source tag names the
\* place the value was read from.
C4_SummaryThenHeaderThenDefault ==
    fn = "getPreferredValue" =>
       LET summaryValue == getSummaryValue(fnArg)
           headerValue == getHeaderValue(fnArg)
       IN  /\ Valid(summaryValue) =>
                 fnOut = [value |-> summaryValue, source |-> "summary"]
           /\ (~Valid(summaryValue) /\ Valid(headerValue)) =>
                 fnOut = [value |-> headerValue, source |-> "header"]
           /\ (~Valid(summaryValue) /\ ~Valid(headerValue)) =>
                 fnOut = [value |-> <<"0.00">>, source |-> "default"]
           /\ fnOut.source = "summary" =>
                 /\ fnArg.hasSummary
                 /\ \E i \in 2..Len(fnArg.Summary) : fnArg.Summary[i] = fnOut.value
           /\ fnOut.source = "header" =>
                 /\ fnArg.hasHeader
                 /\ Len(fnArg.Header) >= 2
                 /\ fnArg.Header[2] = fnOut.value

\* a row whose Summary and Header both carry a valid value, not the same one
C4_Witness ==
    /\ fn = "getPreferredValue"
    /\ Valid(getSummaryValue(fnArg))
    /\ Valid(getHeaderValue(fnArg))
    /\ getSummaryValue(fnArg) # getHeaderValue(fnArg)
    /\ fnOut = [value |-> getSummaryValue(fnArg), source |-> "summary"]

\* the inputs of ExcludeLabels and ExcludeHeaders each pattern matches
PayrollDuplicateLabels == {LE17, <<"e17", "-", "Payroll", "Expenses">>}
OnlineSubscriptionLabels == {LOnline, <<"online", "subscription">>}
TravelConferenceLabels == {LTravelConf, <<"Conference", "Travel">>}
ExpenseCHeaders == {<<"Expense", "C">>, <<"expense", "c">>, <<"Fixed", "Expense", "C">>}
ExpenseEHeaders == {<<"Expense", "E">>}

\* C8: shouldExcludeItem is true exactly when the label matches the
\* payroll-duplicate pattern, or the header matches "Expense C" and the label
\* holds "online subscription", or the header matches "Expense E" and the label
\* holds both "travel" and "conference".
C8_ExclusionScoping ==
    fn = "shouldExcludeItem" =>
       fnOut = ( \/ fnArg.label \in PayrollDuplicateLabels
                 \/ /\ fnArg.expenseSectionHeader \in ExpenseCHeaders
                    /\ fnArg.label \in OnlineSubscriptionLabels
                 \/ /\ fnArg.expenseSectionHeader \in ExpenseEHeaders
                    /\ fnArg.label \in TravelConferenceLabels )

\* "Online Subscription" under Expense A is kept
C8_Witness ==
    /\ fn = "shouldExcludeItem"
    /\ fnArg.label = LOnline
    /\ fnArg.expenseSectionHeader = <<"Expense", "A">>
    /\ fnOut = FALSE

---------------------------------------------------------------------------
(* Properties of the position tracker (SpecLayout) *)

\* C10: checkPageBreak returns true exactly when y + requiredSpace is above
\* pageHeight - margin, and then one page is added and y is the margin;
\* otherwise it returns false and y and the page count are as before.
C10_PageBreak ==
    lastCall.op = "checkPageBreak" =>
       LET over == lastCall.yBefore + lastCall.req > PageHeight - margin
       IN  /\ lastCall.ret = over
           /\ over => (pageCount = lastCall.pagesBefore + 1 /\ y = margin)
           /\ ~over => (pageCount = lastCall.pagesBefore /\ y = lastCall.yBefore)

\* the cursor 5 above the bottom margin and 10 required: a break
C10_Witness ==
    /\ lastCall.op = "checkPageBreak"
    /\ lastCall.yBefore = PageHeight - margin - 5
    /\ lastCall.req = 10
    /\ lastCall.ret
    /\ y = margin
    /\ pageCount = lastCall.pagesBefore + 1


---------------------------------------------------------------------------
(* Properties of the rendered percentages and targets                       *)

\* the Income total of the column col as the parser returned it
IncomeTotalValue(col) ==
    IF ~parsed.monthly THEN parsed.data.income.total.value
    ELSE IF col = 0 THEN parsed.data.income.total.total
    ELSE parsed.data.income.total.values[col]

\* the string reads as a number other than 0
NonZeroNumber(value) == ~isNaN(parseFloat(value)) /\ parseFloat(value) # Num(0)

\* C11: wherever the Income total is a number other than 0, the percentage
\* printed next to it on the Income total line is exactly "100%": in period
\* mode next to the total, in monthly mode in each month column and in the
\* total column.
C11_IncomeTotalIsHundredPercent ==
    \A i \in 1..Len(drawn) :
        (drawn[i].section = "income" /\ drawn[i].kind = "total") =>
           /\ drawn[i].value = IncomeTotalValue(drawn[i].col)
           /\ NonZeroNumber(drawn[i].value) => drawn[i].percentage = "100%"

\* two months with the Income totals 50.00 and 100.00: both month columns and
\* the total column of the Income total line read 100%
C11_Witness ==
    /\ rpc = "done"
    /\ parsed.monthly
    /\ \E i, j, k \in 1..Len(drawn) :
          /\ drawn[i] = Cell("income", "total", LTotalIncome, 1, V50, "100%", Num(5000))
          /\ drawn[j] = Cell("income", "total", LTotalIncome, 2, V100, "100%", Num(10000))
          /\ drawn[k] = Cell("income", "total", LTotalIncome, 0, V100, "100%", Num(10000))

\* the report of one Income row with the Data row (Sales, 100.00) and the
\* Summary (Total Income, 100.00)
SalesReport ==
    <<TopRow(<<<<"Income">>>>, "", <<LTotalIncome, V100>>,
             <<DataRow("Data", <<LSales, V100>>)>>)>>

SalesReportRendered ==
    /\ report.entry = "parse"
    /\ ~report.monthly
    /\ report.rows = SalesReport
    /\ rpc = "done"

SalesReportParsed ==
    result.income = Section(<<"Income">>,
                            <<[label |-> LSales, value |-> V100, indent |-> <<>>]>>,
                            [isNull |-> FALSE, label |-> LTotalIncome, value |-> V100],
                            FALSE)

\* the percentage column of the one item line of the Income section
SalesPercentage(text) ==
    /\ Len(SelectSeq(drawn, LAMBDA c : c.section = "income" /\ c.kind = "item")) = 1
    /\ \E i \in 1..Len(drawn) :
          drawn[i] = Cell("income", "item", LSales, 0, V100, text, Num(10000))

\* C12 (as the program behaves): in period mode the report of one Income row
\* with the only child (Sales, 100.00) and the Summary (Total Income, 100.00)
\* parses to the header "Income", the one item (Sales, 100.00) without indent
\* and the total (Total Income, 100.00), and the percentage column of that
\* item reads "100%".
C12_SalesReadsHundredPercent ==
    SalesReportRendered => (SalesReportParsed /\ SalesPercentage("100%"))

\* C12 as stated: the same, with the percentage column reading "100.00%"
C12_SalesReadsHundredPointZeroZero ==
    SalesReportRendered => (SalesReportParsed /\ SalesPercentage("100.00%"))

\* the report has been parsed and rendered to the end
C12_Witness ==
    /\ SalesReportRendered
    /\ Len(drawn) = 2
    /\ drawn[2] = Cell("income", "total", LTotalIncome, 0, V100, "100%", Num(10000))

\* C13: a percentage is blank whenever the Income total it is taken of is 0,
\* missing or no number, or the value itself is empty or no number; no
\* percentage ever reads NaN or Infinity.
C13_BlankWithoutDenominator ==
    \A i \in 1..Len(drawn) :
        drawn[i].kind # "target" =>
           /\ drawn[i].percentage \notin {"NaN%", "Infinity%", "-Infinity%"}
           /\ (\/ isNaN(drawn[i].base)
               \/ drawn[i].base = Num(0)
               \/ isNaN(parseFloat(drawn[i].value)))
                 => drawn[i].percentage = ""

\* the target the caller asked for, or the default
ExpectedTarget(field) ==
    IF targets.arg = Undefined \/ targets.arg[field] = Undefined
       THEN DEFAULT_TARGET_PERCENTAGES[field]
    ELSE targets.arg[field]

\* the line ending at drawn[i] has the annotation of the target beneath it
TargetBeneath(i, field) ==
    /\ i + 1 <= Len(drawn)
    /\ drawn[i + 1].kind = "target"
    /\ drawn[i + 1].base = ExpectedTarget(field)
    /\ drawn[i + 1].percentage
          = "Target: " \o toFixed2(ExpectedTarget(field).c, 100) \o "%"

\* C14: whatever the targetPercentages argument, a Cost of Sales total, a
\* Payroll sub-section total and the Profit line are each drawn with the
\* annotation "Target: N%" beneath, N the caller's number for that field or
\* the default 30, 25, 15 where the caller gave none.
C14_TargetAlwaysDrawn ==
    \A i \in 1..Len(drawn) :
        /\ (drawn[i].section = "costOfSales" /\ drawn[i].kind = "total"
               /\ drawn[i].col = 0) => TargetBeneath(i, "costOfSales")
        /\ (drawn[i].section = "expenses" /\ drawn[i].kind = "subtotal"
               /\ drawn[i].col = 0 /\ labelContainsKeyword(drawn[i].label, "PAYROLL"))
              => TargetBeneath(i, "payroll")
        /\ (drawn[i].section = "profit" /\ drawn[i].kind = "total"
               /\ drawn[i].col = 0) => TargetBeneath(i, "profit")

\* the Income totals of the months as the parser returned them
IncomeMonthValues ==
    IF parsed.data.income.isNull THEN <<>>
    ELSE IF parsed.data.income.total.isNull THEN <<>>
    ELSE parsed.data.income.total.values

\* C15: in monthly mode the percentage in the column of month i is taken of
\* the Income total of month i and of nothing else, and is blank when that
\* total is missing or 0; the total column is taken of the aggregate only.
C15_OwnMonthDenominator ==
    \A i \in 1..Len(drawn) :
        (parsed.monthly /\ drawn[i].kind # "target" /\ drawn[i].col >= 1) =>
           IF drawn[i].col > Len(IncomeMonthValues) THEN drawn[i].percentage = ""
           ELSE /\ drawn[i].base
                      = OrZero(parseFloat(OrElse(IncomeMonthValues[drawn[i].col], Zero)))
                /\ drawn[i].base = Num(0) => drawn[i].percentage = ""


---------------------------------------------------------------------------
(* Properties of the transformer's traversal (Spec)                         *)

TransformCall == report.entry = "transform"

\* a row that is neither a Data row (ColData with no type or type 'Data') nor
\* a Header row (Header.ColData together with Rows.Row)
IsUnmatchedRow(row) ==
    /\ ~(row.hasColData /\ row.type \in {"", "Data"})
    /\ ~(row.hasHeader /\ row.hasRows)

WithoutUnmatched(rows) == SelectSeq(rows, LAMBDA r : ~IsUnmatchedRow(r))

\* what the handler of one matched row returns
HandledRow(row, context, flags) ==
    IF isDataRow(row)
       THEN IF Monthly THEN transformMonthlyDataRowItem(row, context, flags, NumMonths)
            ELSE transformDataRowItem(row, context, flags)
    ELSE IF isHeaderRow(row)
       THEN transformHeaderRowItemsBase(row, context, flags, Monthly, NumMonths)
    ELSE Handled(<<>>, FALSE, flags)

\* the items of a list of rows, and the flags left, when every list is
\* transformed as if its unmatched rows were absent
RECURSIVE ItemsWithoutUnmatched(_, _, _)
ItemsWithoutUnmatched(rows, context, flags) ==
    IF WithoutUnmatched(rows) = <<>> THEN [items |-> <<>>, flags |-> flags]
    ELSE
      LET row == Head(WithoutUnmatched(rows))
          h == HandledRow(row, context, flags)
          below == IF h.recurse
                      THEN ItemsWithoutUnmatched(row.Rows,
                                                 [context EXCEPT !.indentLevel = @ + 1],
                                                 h.flags)
                   ELSE [items |-> <<>>, flags |-> h.flags]
          rest == ItemsWithoutUnmatched(Tail(WithoutUnmatched(rows)), context, below.flags)
      IN  [items |-> h.emit \o below.items \o rest.items, flags |-> rest.flags]

\* C16: transformItems and transformMonthlyItems do not throw on a row that is
\* neither a Data row nor a Header row, emit no item for it and none for its
\* descendants, and return for the other rows the items they would return if
\* the unmatched rows were not in the list.
C16_UnmatchedRowsAreSkipped ==
    TransformCall =>
       /\ pc # "threw"
       /\ \A i \in 1..Len(log) :
             log[i].case = "dropped" => (log[i].emitted = 0 /\ ~log[i].recurse)
       /\ pc = "done" =>
             items = ItemsWithoutUnmatched(
                        report.rows,
                        createTransformContext(report.expenseSectionHeader, 0,
                                               report.isIncomeSection, 1),
                        NoKeywords).items

\* a call with an unmatched row between two rows that yield items has returned
C16_Witness ==
    /\ TransformCall
    /\ pc = "done"
    /\ Len(report.rows) = 3
    /\ IsUnmatchedRow(report.rows[2])
    /\ ~IsUnmatchedRow(report.rows[1])
    /\ ~IsUnmatchedRow(report.rows[3])
    /\ Len(items) >= 2
    /\ \E i \in 1..Len(log) : log[i].case = "dropped"


\* an entry of the log for an Income Header row that is neither excluded nor a
\* payroll row
IncomeHeaderEntry(e) ==
    /\ TransformCall
    /\ report.isIncomeSection
    /\ e.case \notin {"data", "dropped"}
    /\ ~shouldExcludeItem(e.label, EmptyStr)
    /\ ~isPayrollSection(e.label, EmptyStr)

BothFound(flags) == flags.foundClover /\ flags.foundCourier

OwnKeyword(e) == \E k \in Flags : HasKeyword(k, e.label)

DescendantKeyword(e) ==
    \E k \in Flags : \E l \in DescendantLabels(ChildRows(e.row)) : HasKeyword(k, l)

\* C17: an Income Header row reached while not both keywords are found, whose
\* own label holds no keyword and one of whose descendants' labels holds one,
\* always has its children transformed, whatever its Summary and Header
\* values are.
C17_NestedKeywordAlwaysExpands ==
    \A j \in 1..Len(log) :
        (/\ IncomeHeaderEntry(log[j])
         /\ ~BothFound(log[j].flagsBefore)
         /\ ~OwnKeyword(log[j])
         /\ DescendantKeyword(log[j])) => log[j].recurse

\* C18: an Income Header row is reached with both keywords found only if for
\* each keyword a row visited strictly earlier in the traversal has a label
\* holding it.
C18_CollapseOnlyAfterVisits ==
    \A j \in 1..Len(log) :
        (IncomeHeaderEntry(log[j]) /\ BothFound(log[j].flagsBefore)) =>
           \A k \in Flags : \E i \in 1..(j - 1) : HasKeyword(k, log[i].label)

\* the keywords a handler marked as found
Marked(e) == {k \in Flags : e.flagsAfter[k] /\ ~e.flagsBefore[k]}

\* C19: an Income Header row that is no payroll row is handled by the first
\* case that applies: both keywords found, a summary-only line; a keyword in
\* its own label, one leaf at most, no child expanded and only the keywords of
\* its own label marked; a keyword in a descendant, the header and its
\* expanded children; otherwise a plain header.
C19_FirstOfFourCases ==
    \A j \in 1..Len(log) :
        IncomeHeaderEntry(log[j]) =>
           IF BothFound(log[j].flagsBefore)
              THEN log[j].emitted <= 1 /\ ~log[j].recurse
           ELSE IF OwnKeyword(log[j])
              THEN /\ log[j].emitted <= 1
                   /\ ~log[j].recurse
                   /\ \A k \in Marked(log[j]) : HasKeyword(k, log[j].label)
           ELSE IF DescendantKeyword(log[j])
              THEN log[j].recurse
           ELSE log[j].emitted <= 1 /\ ~log[j].recurse

---------------------------------------------------------------------------
(* Properties of searchForKeywords (SpecFn)                                 *)

\* the labels of the rows of a subtree that are Data rows (ColData and no type
\* or type 'Data') or carry a Header label
RECURSIVE SubtreeLabels(_)
SubtreeLabels(rows) ==
    UNION { (IF rows[i].hasColData /\ rows[i].type \in {"", "Data"}
                THEN {ColValue(rows[i].ColData, 0)} ELSE {})
            \cup (IF rows[i].hasHeader THEN {ColValue(rows[i].Header, 0)} ELSE {})
            \cup (IF rows[i].hasRows THEN SubtreeLabels(rows[i].Rows) ELSE {}) :
            i \in 1..Len(rows) }

\* C20: searchForKeywords(rows) returns a keyword as found exactly when some
\* row of the subtree that is a Data row or carries a Header label has a label
\* holding the keyword, whatever the case of its letters.
C20_SearchFindsEveryLabel ==
    fn = "searchForKeywords" =>
       \A k \in Flags :
          fnOut[k] <=> \E l \in SubtreeLabels(fnArg.rows) : HasKeyword(k, l)


---------------------------------------------------------------------------
(* Properties of the Header row handlers (Spec)                             *)

\* an entry of the log for a Header row of a direct call of the transformer
HeaderEntry(e) == TransformCall /\ e.case \notin {"data", "dropped"}

\* the name holds PAYROLL or WAGE(S)
PayrollNamed(name) ==
    \/ includes(toUpperCase(name), <<"PAYROLL">>)
    \/ includes(toUpperCase(name), <<"WAGES">>)
    \/ includes(toUpperCase(name), <<"WAGE">>)

\* C21: every Header row whose own label, or whose enclosing expense-section
\* name, holds PAYROLL or WAGE(S) gives exactly one line for the header, never
\* none, and then the items of its children at indentLevel + 1.
C21_PayrollHeaderAlwaysShown ==
    \A j \in 1..Len(log) :
        (/\ HeaderEntry(log[j])
         /\ PayrollNamed(log[j].label) \/ PayrollNamed(report.expenseSectionHeader))
           => /\ log[j].emitted = 1
              /\ log[j].emit[1].label = log[j].label
              /\ log[j].recurse
              /\ (j < Len(log) /\ ChildRows(log[j].row) # <<>>) =>
                    /\ log[j + 1].row = ChildRows(log[j].row)[1]
                    /\ log[j + 1].indentLevel = log[j].indentLevel + 1


\* C22: a Header row of the payroll case or of the regular case whose inline
\* Header value is valid and whose Summary value is valid and different gives
\* a line that carries the Header's inline value.
C22_HeaderValueBeforeSummary ==
    \A j \in 1..Len(log) :
        (/\ HeaderEntry(log[j])
         /\ ~Monthly
         /\ log[j].case \in {"payroll", "regular"}
         /\ isValidValue(getHeaderValue(log[j].row))
         /\ isValidValue(getSummaryValue(log[j].row))
         /\ getHeaderValue(log[j].row) # getSummaryValue(log[j].row))
           => /\ log[j].emitted = 1
              /\ log[j].emit[1].value = getHeaderValue(log[j].row)


\* the indent an item at recursion depth d carries: absent at depth 0
IndentAtDepth(d) == IF d > 0 THEN <<d>> ELSE <<>>

\* C23: every item the period or monthly transformer emits carries an indent
\* equal to the number of Header rows entered by recursion above its row; the
\* indent is absent exactly at depth 0 and is never 0 or negative.
C23_IndentIsRecursionDepth ==
    \A j \in 1..Len(log) :
        \A k \in 1..Len(log[j].emit) :
            /\ log[j].emit[k].indent = IndentAtDepth(log[j].depth)
            /\ (log[j].emit[k].indent = <<>>) <=> (log[j].depth = 0)
            /\ log[j].emit[k].indent # <<>> => log[j].emit[k].indent[1] > 0

\* items at depth 0, 1 and 2 in one run
C23_Witness ==
    \A d \in 0..2 :
        \E j \in 1..Len(log) :
            /\ log[j].depth = d
            /\ log[j].emit # <<>>
            /\ log[j].emit[1].indent = IndentAtDepth(d)


---------------------------------------------------------------------------
(* Properties of the Expenses loop of the parsers (Spec) *)

ParseOver == ParseCall /\ pc \in {"done", "threw"}

\* the headers of the sub-sections of an Expenses row other than the excluded
\* payroll-expenses one, in input order
KeptSubSection(row) ==
    isExpenseSubSection(row) /\ ~isE17PayrollExpenses(getHeaderLabel(row))
ExpectedSubSections(row) ==
    LET kept == SelectSeq(ChildRows(row), KeptSubSection)
    IN  [k \in 1..Len(kept) |-> getHeaderLabel(kept[k])]

\* the headers of the ExpenseSection entries collected from top-level row r
CollectedSubSections(r) ==
    LET from(i) == origin.expenseSections[i] = r
        idx == SelectSeq([i \in 1..Len(result.expenseSections) |-> i], from)
    IN  [k \in 1..Len(idx) |-> result.expenseSections[idx[k]].header]

\* C24: the excluded payroll-expenses sub-section of an Expenses row gets no
\* ExpenseSection entry and its children are never transformed; every other
\* sub-section of the same Expenses row is still collected, in input order.
C24_OnlyPayrollExpensesSubSectionDropped ==
    /\ (ParseCall /\ pc = "transform" /\ sectionType = "EXPENSES")
          => ~isE17PayrollExpenses(getHeaderLabel(CurExpenseRow))
    /\ ParseOver =>
          \A r \in 1..Len(report.rows) :
              identifySectionType(report.rows[r]) = "EXPENSES"
                 => CollectedSubSections(r) = ExpectedSubSections(report.rows[r])


---------------------------------------------------------------------------
(* Properties of the descent into a Header row's children (Spec) *)

\* the cases of a Header row that are the regular one, the plain income header
\* and the income header met after both keywords were found
CollapsingCases == {"regular", "incomeWithoutKeywords"}
DescendingCases == {"payroll", "incomeWithNestedKeywords"}

\* the entry of the Header row that the rows of entry j are children of
ParentEntry(j) ==
    CHOOSE i \in 1..(j - 1) :
        /\ log[i].depth = log[j].depth - 1
        /\ \A m \in (i + 1)..(j - 1) : log[m].depth >= log[j].depth

RECURSIVE AllEmitted(_)
AllEmitted(n) == IF n = 0 THEN <<>> ELSE AllEmitted(n - 1) \o log[n].emit

\* C28: a Header row of the regular case, or of the income plain-header or
\* both-keywords-found case, contributes at most one item, made of its own
\* label or its Summary's label, and none from its descendants; a row below a
\* Header row is transformed only under the payroll case and the income
\* descendant-keyword case.
C28_DescendantsOnlyUnderPayrollAndNested ==
    /\ pc = "transform" => items = AllEmitted(Len(log))
    /\ \A j \in 1..Len(log) :
          /\ (HeaderEntry(log[j]) /\ log[j].case \in CollapsingCases)
                => /\ log[j].emitted <= 1
                   /\ ~log[j].recurse
                   /\ log[j].emitted = 1
                         => log[j].emit[1].label \in {getHeaderLabel(log[j].row),
                                                      getSummaryLabel(log[j].row)}
                   /\ j < Len(log) => log[j + 1].depth <= log[j].depth
          /\ log[j].recurse => log[j].case \in DescendingCases
          /\ log[j].depth > 0
                => /\ log[ParentEntry(j)].case \in DescendingCases
                   /\ \E k \in 1..Len(ChildRows(log[ParentEntry(j)].row)) :
                         ChildRows(log[ParentEntry(j)].row)[k] = log[j].row

\* a regular Header row with children gave its one line and the loop went on
\* with its sibling
C28_Witness ==
    \E j \in 1..(Len(log) - 1) :
        /\ HeaderEntry(log[j])
        /\ log[j].case = "regular"
        /\ ChildRows(log[j].row) # <<>>
        /\ log[j].emitted = 1
        /\ log[j + 1].depth = log[j].depth


---------------------------------------------------------------------------
(* Properties of the two transformers side by side (SpecFn) *)

BothModesApplied == fn = "transformBothModes"

\* C27: with numMonths = 1 and every ColData array [label, v, v] where the
\* period tree has [label, v], transformMonthlyItems and transformItems return
\* lists of the same length with the same label and indent at every position,
\* and each monthly item's total equals the period item's value.
C27_MonthlyFollowsPeriod ==
    BothModesApplied =>
       /\ Len(fnOut.monthly) = Len(fnOut.period)
       /\ \A k \in 1..Len(fnOut.period) :
             /\ fnOut.monthly[k].label = fnOut.period[k].label
             /\ fnOut.monthly[k].indent = fnOut.period[k].indent
             /\ fnOut.monthly[k].total = fnOut.period[k].value


---------------------------------------------------------------------------
(* Properties of the choice of the mode (SpecFn) *)

GeneratePDFApplied == fn = "generatePDFFromReportData"

MonthlyLook == fnOut.title = "Monthly P&L Report" /\ fnOut.margin = MonthlyMargin
MonthlyPath ==
    fnOut.parser = "parseReportDataMonthly" /\ fnOut.strategy = "MonthlyModeRenderer"

\* C30: generatePDFFromReportData never mixes the two modes: the monthly title
\* and the monthly page margin are used if and only if the report is parsed by
\* parseReportDataMonthly and drawn by MonthlyModeRenderer, also when
\* SummarizeColumnsBy is "Month" and no month column can be extracted.
C30_ModesNeverMixed ==
    GeneratePDFApplied => (MonthlyLook <=> MonthlyPath)


---------------------------------------------------------------------------
(* Properties of the page layout (SpecDraw) *)

Rendering == sheet.entry = "render"

IsText(e) == e.op = "text"
IsBreak(e) == e.op = "checkPageBreak" /\ e.tag = "true"

\* between the calls i and j, j excluded, the call op is made
CalledBetween(op, i, j) == \E k \in (i + 1)..(j - 1) : events[k].op = op

\* no text is drawn between the calls i and j, j excluded
NoTextBetween(i, j) == \A k \in (i + 1)..(j - 1) : ~IsText(events[k])

\* C25: in both strategies, after a checkPageBreak call that returns true the
\* font size and the font style are both set again before the next text is
\* drawn, in every drawing routine.
C25_FontSetAfterPageBreak ==
    \A i \in 1..Len(events) :
        IsBreak(events[i]) =>
           \A j \in (i + 1)..Len(events) :
               (IsText(events[j]) /\ NoTextBetween(i, j))
                  => CalledBetween("setFontSize", i, j) /\ CalledBetween("setFont", i, j)

\* a page break inside an item loop, with the item's label drawn after it
C25_Witness ==
    \E i \in 1..(Len(events) - 3) :
        /\ IsBreak(events[i])
        /\ i > 1 /\ events[i - 1].op # "checkPageBreak"
        /\ events[i + 1].op = "setFontSize"
        /\ events[i + 2].op = "setFont"
        /\ IsText(events[i + 3]) /\ events[i + 3].tag = "label"

\* the place of a drawn text in its section: the header, the column headers,
\* the items in list order, the total
Rank(e) ==
    IF e.tag = "header" THEN 0
    ELSE IF e.tag = "columns" THEN 1
    ELSE IF e.tag \in {"label", "value", "percent"} THEN 1 + e.item
    ELSE MaxItems + 2

SectionNames == {"income", "costOfSales", "otherIncome"}

\* the ranks of the texts drawn for a section, in draw order
TextsOf(sec) == SelectSeq(events, LAMBDA e : IsText(e) /\ e.sec = sec)

Drawn(sec) ==
    \/ sec = "income" /\ lpc # "income"
    \/ sec = "costOfSales" /\ lpc \notin {"income", "costOfSales"}
    \/ sec = "otherIncome" /\ lpc \in {"profit", "done"}

\* the texts t of a section come in rank order, and once the section is
\* drawn none of its parts is missing
InOrder(t, section, over) ==
    /\ \A i \in 1..(Len(t) - 1) : Rank(t[i]) <= Rank(t[i + 1])
    /\ (over /\ ~section.isNull) =>
          /\ \E i \in 1..Len(t) : t[i].tag = "header"
          /\ \E i \in 1..Len(t) : t[i].tag = "columns"
          /\ \A k \in 1..Len(section.items) :
                \E i \in 1..Len(t) : t[i].tag = "label" /\ t[i].item = k
          /\ section.total > 0 => \E i \in 1..Len(t) : t[i].tag = "total"

\* C26: for every non-null section drawn by either strategy the draw events
\* come in the order section header text, column headers, all items in list
\* order, section total: no item before the column headers, none after the
\* total.
C26_SectionDrawOrder ==
    Rendering =>
       \A sec \in SectionNames : InOrder(TextsOf(sec), sheet[sec], Drawn(sec))

\* the Income section with two items and a total is on the page
C26_Witness ==
    /\ Rendering
    /\ lpc = "costOfSales"
    /\ ~sheet.income.isNull
    /\ Len(sheet.income.items) = MaxItems
    /\ sheet.income.total > 0
    /\ \E i, j \in 1..Len(events) :
          /\ i < j
          /\ IsText(events[i]) /\ events[i].tag = "label" /\ events[i].item = MaxItems
          /\ IsText(events[j]) /\ events[j].tag = "total" /\ events[j].sec = "income"

\* C29: in the item loops of both strategies every label line of every item is
\* drawn at a y position <= pageHeight - margin, whatever the number of
\* wrapped lines of the label.
C29_LabelLinesAboveBottomMargin ==
    \A i \in 1..Len(events) :
        (IsText(events[i]) /\ events[i].tag = "label")
           => events[i].y <= PageHeight - margin

=============================================================================
